---- MODULE Spec2Model ----
(***************************************************************************)
(* A model of the parse-tree editing, reinflection and question-formation *)
(* engine of src/core/spacyutils.py (EToken, EDoc) together with the      *)
(* filters of src/core/language_funs/en/grammar_funs.py.                  *)
(*                                                                         *)
(* A Doc is a sequence of raw token records; positions are 0-based as in  *)
(* the source, so the token at position i is d[i+1].  An EToken is a raw  *)
(* token copied out of a Doc, extended with its position i and the        *)
(* optional head_i override, and passed through _format_token.            *)
(***************************************************************************)
EXTENDS Integers, Sequences, FiniteSets, TLC

VARIABLES src, cur, last, steps, filt, mk

vars == <<src, cur, last, steps, filt, mk>>

\* Python's None
None == "None"

\* an integer attribute that is None or not set (EToken.i, EToken.head_i)
NoIdx == 0 - 1

\* pattern.en constants (SG, PL, PAST, PRESENT, INFINITIVE)
SG == "singular"
PL == "plural"
PAST == "past"
PRESENT == "present"
INFINITIVE == "infinitive"

-----------------------------------------------------------------------------
(* Helpers on sequences                                                    *)

Range(s) == {s[k] : k \in DOMAIN s}

Min(S) == CHOOSE m \in S : \A n \in S : m <= n

Max(S) == CHOOSE m \in S : \A n \in S : m >= n

\* the ascending sequence of the elements of a finite set of integers
RECURSIVE SortedSeq(_)
SortedSeq(S) == IF S = {} THEN <<>> ELSE <<Min(S)>> \o SortedSeq(S \ {Min(S)})

\* list.insert(index, x): 0-based, an index past the end appends
InsertAt(s, index, x) ==
    IF index >= Len(s) THEN Append(s, x)
    ELSE SubSeq(s, 1, index) \o <<x>> \o SubSeq(s, index + 1, Len(s))

-----------------------------------------------------------------------------
(* Constants of src/core/constants.py                                      *)

NUMBER_MAP(n) ==
    IF n \in {"Singular", "singular", "Sing", "sing", "SG", "Sg", "sg"} THEN SG
    ELSE IF n \in {"Plural", "plural", "Plur", "plur", "PL", "Pl", "pl"} THEN PL
    ELSE None

TENSE_MAP(t) ==
    IF t \in {"PAST", "Past", "past", "PST", "Pst", "pst"} THEN PAST
    ELSE IF t \in {"PRESENT", "Present", "present", "PRES", "Pres", "pres"} THEN PRESENT
    ELSE IF t \in {"INF", "Inf", "inf", "INFINITIVE", "Infinitive", "infinitive"}
         THEN INFINITIVE
    ELSE None

SUBJ_DEPS == {"csubj", "csubjpass", "attr", "nsubj", "nsubjpass", "expl"}

OBJ_DEPS == {"cobj", "nobj", "dobj"}

DET_TAGS == {"DT", "JJ", "JJR", "CD"}

NOUN_POS_TAGS == {"NOUN", "PRON", "PROPN"}

INFLECTED_AUXES == {"be", "have", "get", "do"}

\* the entries of INCORRECT_MORPHS for the words of the model's lexicon
\* (every entry of the table sets Number only)
INCORRECT_MORPHS(text) ==
    IF text \in {"was", "is", "A", "a", "That", "that"} THEN "Sing"
    ELSE IF text \in {"were", "are", "They", "they"} THEN "Plur"
    ELSE None

INCORRECT_MORPHS_PRESENT_TENSE == {"say", "have", "remain"}

\* referenced by _format_token; its entries are not part of constants.py,
\* no word of the model's lexicon is re-tagged
INCORRECT_POS(text) == None

AMOD_DETERMINERS == {"many", "Many", "few", "Few", "fewer", "Fewer"}

PARTITIVES_WITH_P == {"Some", "some", "Any", "any", "latest", "newest", "recent"}

PARTITIVES_OPTIONAL_P ==
    {"All", "all", "Half", "half", "Most", "most", "More", "more", "First",
     "first", "Last", "last", "Any", "any", "Enough", "enough"}

PARTITIVES_WITH_INDEFINITE_ONLY ==
    {"amount", "group", "lot", "number", "quantity", "ton", "series", "array"}

ALL_PARTITIVES ==
    PARTITIVES_WITH_P \cup PARTITIVES_OPTIONAL_P \cup PARTITIVES_WITH_INDEFINITE_ONLY

\* the words of these tables that the lexicon of the model has
PLURALS_WITH_NO_DETERMINERS == {"fish", "Fish", "sheep", "Sheep", "series", "Series"}

NUMBERS_FOR_ADJECTIVES_USED_AS_NOUNS(text) ==
    IF text \in {"poor", "young"} THEN "Plur"
    ELSE IF text \in {"other", "final"} THEN "Sing"
    ELSE None

PARTITIVES_P_MAP(text) ==
    IF text \in {"latest", "newest", "recent"} THEN {"in", "of"} ELSE {"of"}

VERB_PREFIXES == {"co"}

\* the dependency labels themselves as structure labels
RawDep(dep) == dep

STRUCTURE_MAP(dep) ==
    IF dep \in {"prep", "pcomp", "pobj"} THEN "PP"
    ELSE IF dep = "relcl" THEN "RC"
    ELSE IF dep \in {"acl", "ccomp"} THEN "CC"
    ELSE IF dep \in {"npadvmod", "advmod", "advcl", "acomp"} THEN "AdvP"
    ELSE IF dep = "amod" THEN "AP"
    ELSE IF dep \in {"appos", "parataxis"} THEN "ParenP"
    ELSE IF dep = "cc" THEN "ConjP"
    ELSE IF dep = "quantmod" THEN "QP"
    ELSE IF dep = "nummod" THEN "NumP"
    ELSE dep

EXCLUDE_DEPS ==
    {"nsubj", "xcomp", "agent", "dobj", "conj", "oprd", "dative", "nsubjpass",
     "attr", "dep", "punct", "prt", "mark", "nmod", "nummod", "quantmod",
     "compound"}

LOOK_FOR_SUBJECTS_LIMIT == 10

MAX_TRIES_TO_FIND_SUBJECT == 10

-----------------------------------------------------------------------------
(* Text: str.upper()/str.lower() of the first character, on the lexicon    *)

CapPairs ==
    { <<"the", "The">>, <<"dog", "Dog">>, <<"dogs", "Dogs">>, <<"do", "Do">>,
      <<"does", "Does">>, <<"did", "Did">>, <<"is", "Is">>, <<"are", "Are">>,
      <<"was", "Was">>, <<"were", "Were">>, <<"can", "Can">>,
      <<"would", "Would">>, <<"he", "He">>, <<"they", "They">>,
      <<"key", "Key">>, <<"keys", "Keys">>, <<"there", "There">>,
      <<"alpha", "Alpha">>, <<"beta", "Beta">>, <<"gamma", "Gamma">>,
      <<"delta", "Delta">>, <<"omega", "Omega">>, <<"nu", "Nu">>,
      <<"tom", "Tom">>, <<"a", "A">>, <<"mr", "Mr">>, <<"be", "Be">> }

\* text[0].upper() + text[1:]
Capitalize(text) ==
    IF \E p \in CapPairs : p[1] = text
    THEN (CHOOSE p \in CapPairs : p[1] = text)[2]
    ELSE text

\* text[0].lower() + text[1:]
Decapitalize(text) ==
    IF \E p \in CapPairs : p[2] = text
    THEN (CHOOSE p \in CapPairs : p[2] = text)[1]
    ELSE text

\* words of the lexicon written in capitals only
AllCaps == {"A", "I", "NASA"}

\* text[0].isupper()
IsUpperInitial(text) == text \in AllCaps \/ \E p \in CapPairs : p[2] = text

-----------------------------------------------------------------------------
(* Morphology: the feature mapping of a token (str(token.morph))           *)

NoMorph ==
    [Number |-> None, Tense |-> None, VerbForm |-> None, Person |-> None,
     Mood |-> None, Definite |-> None, Degree |-> None, person |-> None]

\* EToken.get_morph(key)
get_morph(t, key) == t.morph[key]

\* EToken.set_morph(key=value); a value of None removes the feature
set_morph(t, key, value) == [t EXCEPT !.morph[key] = value]

-----------------------------------------------------------------------------
(* EToken                                                                  *)

\* word_is_number on the lexicon of the model
word_is_number(text) == text \in {"one", "One", "two", "Two"}

\* EToken._format_token: the first token starts the sentence; the Number
\* of a word the parser gets wrong is set; the part of speech is corrected
FormatToken(t) ==
    LET Pos(t2, pos) == IF pos # None THEN [t2 EXCEPT !.pos = pos] ELSE t2
        Morphs(t1, incorrect) ==
            IF incorrect # None THEN set_morph(t1, "Number", incorrect)
            ELSE IF \/ /\ t1.text \in INCORRECT_MORPHS_PRESENT_TENSE
                       /\ get_morph(t1, "Tense") = "Pres"
                    \/ /\ t1.pos = "VERB"
                       /\ get_morph(t1, "Tense") = "Pres"
                       /\ t1.lemma = t1.text
               THEN set_morph(t1, "Number", "Plur")
            ELSE IF word_is_number(t1.text)
               THEN set_morph(t1, "Number",
                              IF t1.text \in {"one", "One"} THEN "Sing" ELSE "Plur")
            ELSE t1
    IN  Pos(Morphs([t EXCEPT !.sent_start = (t.i = 0) \/ @],
                   INCORRECT_MORPHS(t.text)),
            INCORRECT_POS(t.text))

\* EToken(token): the fields of the Doc's token are copied and formatted;
\* i is token.i and _token is the Doc's token itself
EToken(token, i) ==
    FormatToken(token @@ [i |-> i, head_i |-> NoIdx]) @@ [_token |-> token]

\* EDoc(doc): the ETokens of the Doc, as __getitem__ and __iter__ give them.
\* The operations below are given this sequence.  Each EToken carries the
\* positions of its Token.children: the tokens whose head it is (the root
\* is not its own child).
EDoc(doc) ==
    [k \in 1..Len(doc) |->
        EToken(doc[k], k - 1)
            @@ [children |-> {j \in 0..(Len(doc) - 1) :
                                j # k - 1 /\ doc[j + 1].head = k - 1}]]

\* EDoc.__getitem__(i)
Token(d, i) == d[i + 1]

\* EToken.head.i: a ROOT token is its own head
HeadIdx(t) == IF t.dep = "ROOT" THEN t.i ELSE t.head

\* t.head.i if not hasattr(t, 'head_i') else t.head_i
HeadOf(t) == IF t.head_i # NoIdx THEN t.head_i ELSE HeadIdx(t)

\* the raw token a new Doc stores for an EToken
RawOf(t, h) ==
    [text |-> t.text, ws |-> t.ws, tag |-> t.tag, pos |-> t.pos,
     morph |-> t.morph, lemma |-> t.lemma, dep |-> t.dep, head |-> h,
     sent_start |-> t.sent_start]

\* EToken.can_be_decapitalized
can_be_decapitalized(t) == t.pos # "PROPN" /\ t.text # "I"

\* EDoc.__unicode__: the concatenation of text + trailing whitespace
RECURSIVE Render(_)
Render(d) ==
    IF d = <<>> THEN ""
    ELSE Head(d).text \o (IF Head(d).ws THEN " " ELSE "") \o Render(Tail(d))

-----------------------------------------------------------------------------
(* Results of operations: a new Doc, or an error                           *)

\* a new sentence is returned
Ok(d) == [ok |-> TRUE, doc |-> d, err |-> None, same |-> FALSE]

\* return self: the sentence the method was called on is returned
Same == [ok |-> TRUE, doc |-> <<>>, err |-> None, same |-> TRUE]

Err(e) == [ok |-> FALSE, doc |-> <<>>, err |-> e, same |-> FALSE]

-----------------------------------------------------------------------------
(* Copy-on-write editing (EDoc.copy_with_replace, _copy_with_remove,       *)
(* _copy_with_add)                                                         *)

\* heads = [t.head.i if not hasattr(t, 'head_i') else t.head_i for t in self]
DocHeads(d) == [k \in 1..Len(d) |-> HeadOf(Token(d, k - 1))]

\* the loop of copy_with_replace: for i, t in zip(indices, tokens)
RECURSIVE ReplaceLoop(_, _, _)
ReplaceLoop(d, tokens, indices) ==
    IF tokens = <<>> THEN d
    ELSE ReplaceLoop(
            [d EXCEPT ![Head(indices) + 1] = RawOf(Head(tokens), HeadOf(Head(tokens)))],
            Tail(tokens), Tail(indices))

\* EDoc.copy_with_replace(tokens, indices)
copy_with_replace(d, tokens, indices) ==
    LET Base(heads) == [k \in 1..Len(d) |-> [d[k]._token EXCEPT !.head = heads[k]]]
    IN  IF Len(tokens) # Len(indices)
        THEN Err("ValueError")
        ELSE IF \E k \in DOMAIN indices : indices[k] < 0 \/ indices[k] > Len(d) - 1
        THEN Err("IndexError")
        ELSE Ok(ReplaceLoop(Base(DocHeads(d)), tokens, indices))

\* the loop of _copy_with_remove: for i, move_to in zip(indices, move_deps_to)
RECURSIVE RemoveLoop(_, _, _)
RemoveLoop(heads, indices, move_deps_to) ==
    IF indices = <<>> \/ move_deps_to = <<>> THEN heads
    ELSE LET i       == Head(indices)
             move_to == Head(move_deps_to)
         IN  RemoveLoop(
                [k \in DOMAIN heads |->
                    IF heads[k] > i THEN heads[k] - 1
                    ELSE IF heads[k] = i THEN move_to
                    ELSE heads[k]],
                Tail(indices), Tail(move_deps_to))

\* EDoc._copy_with_remove(indices, move_deps_to); indices is a list,
\* move_deps_to is <<m>> for an int m, and any list is replaced by indices
copy_with_remove(d, indices, move_deps_to, is_list) ==
    LET n == Len(d)
        word(k, i) == IF k = 1 /\ ~IsUpperInitial(d[i + 1].text)
                      THEN Capitalize(d[i + 1].text)
                      ELSE d[i + 1].text
        space(i) == IF i + 1 \in Range(indices)
                    THEN Token(d, i + 1).ws
                    ELSE d[i + 1].ws
        Tokens(kept, heads) ==
            [k \in DOMAIN kept |->
                [d[kept[k] + 1]._token EXCEPT
                    !.text = word(k, kept[k]), !.ws = space(kept[k]),
                    !.head = heads[k],
                    !.sent_start = IF k = 1 THEN TRUE ELSE @]]
        Removed(kept, moves) ==
            IF \E k \in DOMAIN indices : indices[k] > n - 1
            THEN Err("IndexError")
            ELSE IF \E k \in DOMAIN moves : moves[k] > n - 1
            THEN Err("IndexError")
            ELSE IF kept = <<>>
            THEN Err("IndexError")
            ELSE Ok(Tokens(kept,
                           RemoveLoop([k \in DOMAIN kept |-> HeadOf(Token(d, kept[k]))],
                                      indices, moves)))
    IN  Removed(SortedSeq({i \in 0..(n - 1) : i \notin Range(indices)}),
                IF ~is_list THEN move_deps_to ELSE indices)

\* EDoc._copy_with_add(token, index)
copy_with_add(d, token, index) ==
    LET Shifted(old) ==
            [k \in DOMAIN old |->
                IF HeadOf(old[k]) > index THEN HeadOf(old[k]) + 1 ELSE HeadOf(old[k])]
        word(tokens, k) ==
            IF index = 0 /\ k = 1 THEN Capitalize(tokens[k].text)
            ELSE IF index = 0 /\ k = 2 /\ can_be_decapitalized(tokens[2])
            THEN Decapitalize(tokens[k].text)
            ELSE tokens[k].text
        space(tokens, k) ==
            IF ~Token(d, index).ws
            THEN (IF tokens[k].i # index THEN tokens[k].ws ELSE FALSE)
            ELSE tokens[k].ws
        Tokens(tokens, heads) ==
            [k \in DOMAIN tokens |->
                [RawOf(tokens[k], heads[k]) EXCEPT
                    !.text = word(tokens, k), !.ws = space(tokens, k),
                    !.sent_start = (k = 1)]]
        Added(old) ==
            Tokens(InsertAt(old, index, token),
                   InsertAt(Shifted(old), index, HeadOf(token)))
    IN  IF index < 0 \/ index > Len(d) - 1
        THEN Err("IndexError")
        ELSE Ok(Added(d))

-----------------------------------------------------------------------------
(* The tree invariant of the data model                                    *)

Roots(d) == {i \in 0..(Len(d) - 1) : d[i + 1].head = i}

HeadsInRange(d) == \A k \in DOMAIN d : d[k].head \in 0..(Len(d) - 1)

\* the position reached from i by following n head links
RECURSIVE Ancestor(_, _, _)
Ancestor(d, i, n) == IF n = 0 THEN i ELSE Ancestor(d, d[i + 1].head, n - 1)

\* every token reaches a self-headed token: no cycle but the root's self-loop
Acyclic(d) ==
    \A i \in 0..(Len(d) - 1) : Ancestor(d, i, Len(d)) \in Roots(d)

WellFormed(d) ==
    /\ Cardinality(Roots(d)) = 1
    /\ HeadsInRange(d)
    /\ Acyclic(d)

-----------------------------------------------------------------------------
(* EToken properties that read the parse tree.  A token is named by its    *)
(* position i in the Doc d it was copied from (EToken._token).             *)

Positions(d) == 0..(Len(d) - 1)

\* EToken.children, as the set of positions
children(d, i) == d[i + 1].children

\* Token.rights: the children to the right of i
rights(d, i) == {j \in children(d, i) : j > i}

\* EToken.head of the token at i, as a position
head_of(d, i) == HeadIdx(Token(d, i))

\* EToken.is_aux
is_aux(t) == t.pos = "AUX" \/ t.lemma = "be"

\* EToken.is_verb
is_verb(t) == t.pos = "VERB"

\* EToken.can_be_inflected
can_be_inflected(t) ==
    /\ t.tag \notin {"VBN", "VBG"}
    /\ (is_verb(t) \/ (is_aux(t) /\ t.lemma \in INFLECTED_AUXES))

\* EToken.determiner, as the set of positions (None is the empty set)
determiner(d, i) ==
    {c \in children(d, i) :
        \/ Token(d, c).dep \in {"det", "nummod"}
        \/ (Token(d, c).dep = "amod" /\ Token(d, c).text \in AMOD_DETERMINERS)}

ChildrenWithDep(d, i, deps) == {c \in children(d, i) : Token(d, c).dep \in deps}

ChildrenWithLemma(d, i, lemma) == {c \in children(d, i) : Token(d, c).lemma = lemma}

VerbChildren(d, i) == {c \in children(d, i) : is_verb(Token(d, c))}

\* the extension of an all-expletive subject list (EToken.subject, there-insertion)
ExplExtension(d, i, s) ==
    LET Extend(h, allExpl, auxXcomp, auxNoBe) ==
            IF allExpl /\ (ChildrenWithDep(d, i, {"xcomp"}) # {} \/ auxXcomp)
            THEN LET FromRef(ref) ==
                         IF ChildrenWithLemma(d, ref, "be") # {}
                         THEN s \cup ChildrenWithDep(
                                         d, Min(ChildrenWithLemma(d, ref, "be")),
                                         SUBJ_DEPS)
                         ELSE IF VerbChildren(d, ref) # {}
                         THEN s \cup ChildrenWithDep(d, Min(VerbChildren(d, ref)),
                                                      OBJ_DEPS)
                         ELSE s
                 IN  FromRef(IF ~auxXcomp THEN i ELSE h)
            ELSE IF allExpl /\ (Token(d, i).lemma # "be" \/ auxNoBe)
            THEN s \cup ChildrenWithDep(d, IF ~auxNoBe THEN i ELSE h, OBJ_DEPS)
            ELSE s
    IN  Extend(head_of(d, i),
               \A c \in s : Token(d, c).dep = "expl",
               is_aux(Token(d, i))
                   /\ ChildrenWithDep(d, head_of(d, i), {"xcomp"}) # {},
               is_aux(Token(d, i))
                   /\ ChildrenWithLemma(d, head_of(d, i), "be") = {})

\* EToken.subject, as the set of positions of the subject token(s);
\* the empty set is None, one position a single token, more a sorted list
RECURSIVE subject(_, _)
subject(d, i) ==
    LET \* a list whose members are all attr is no subject
        NotAllAttr(s) ==
            IF \A c \in s : Token(d, c).dep = "attr" THEN {} ELSE s
        Extended(s) ==
            IF s = {} THEN {} ELSE NotAllAttr(ExplExtension(d, i, s))
        \* an auxiliary without a subject takes the subject of its head
        OfAux(s) ==
            Extended(IF s = {} /\ is_aux(Token(d, i))
                     THEN (IF Token(d, i).dep # "ROOT"
                           THEN subject(d, head_of(d, i)) ELSE {})
                     ELSE s)
        \* no subject among the children: the subject children of the head
        OfHead(s) ==
            OfAux(IF s = {} THEN ChildrenWithDep(d, head_of(d, i), SUBJ_DEPS) ELSE s)
    IN  OfHead(ChildrenWithDep(d, i, SUBJ_DEPS))

\* EToken.has_subject
has_subject(d, i) == subject(d, i) # {}

\* EToken.object, as the set of positions
object(d, i) == ChildrenWithDep(d, i, OBJ_DEPS) \ subject(d, i)

\* EToken.has_object
has_object(d, i) == object(d, i) # {}

\* EToken.is_transitive
is_transitive(d, i) == has_subject(d, i) /\ has_object(d, i)

\* EToken.is_intransitive
is_intransitive(d, i) == ~is_transitive(d, i)

\* EToken.polarity = 'Neg' (the token is a verb or an auxiliary)
is_negative(d, i) ==
    \/ (~is_aux(Token(d, i)) /\ ChildrenWithDep(d, i, {"neg"}) # {})
    \/ (is_aux(Token(d, i)) /\ ChildrenWithDep(d, head_of(d, i), {"neg"}) # {})

-----------------------------------------------------------------------------
(* EDoc properties.  Tokens are named by their positions; a list of tokens *)
(* the code keeps sorted by position is the set of those positions.  The   *)
(* lexicon of the model has no hyphen prefix.                              *)

\* EDoc._get_conjuncts
RECURSIVE _get_conjuncts(_, _)
_get_conjuncts(d, i) ==
    LET WithNested(direct) ==
            direct \cup UNION {_get_conjuncts(d, c) : c \in direct}
    IN  WithNested({c \in rights(d, i) : Token(d, c).dep = "conj"})

\* EDoc.root: the first token whose dependency is ROOT (NoIdx is None)
root(d) ==
    LET First(rs) == IF rs = {} THEN NoIdx ELSE Min(rs)
    IN  First({i \in Positions(d) : Token(d, i).dep = "ROOT"})

\* EDoc.root_is_verb
root_is_verb(d) ==
    LET IsVerb(r) == r # NoIdx /\ (is_verb(Token(d, r)) \/ is_aux(Token(d, r)))
    IN  IsVerb(root(d))

\* a main verb that is the root itself, whatever auxiliaries it has
StayAtRoot(d, v, fuel) == v

\* the while loop of main_verb: step down through aux/auxpass children
RECURSIVE AuxDescend(_, _, _)
AuxDescend(d, v, fuel) ==
    LET Step(a) == IF a = {} \/ fuel = 0 THEN v ELSE AuxDescend(d, Min(a), fuel - 1)
    IN  Step(ChildrenWithDep(d, v, {"auxpass", "aux"}))

\* EDoc.main_verb (NoIdx is None)
main_verb(d) == IF root_is_verb(d) THEN AuxDescend(d, root(d), Len(d)) ELSE NoIdx

\* EDoc.main_verb_tense
main_verb_tense(d) == get_morph(Token(d, main_verb(d)), "Tense")

\* EDoc.main_subject, as a set of positions (empty is None)
main_subject(d) ==
    LET \* the hyphenated-verb case: the subject is a verb prefix
        OfPrefix(s2) == s2 \cup _get_conjuncts(d, Min(s2))
        Single(s1) ==
            IF Cardinality(s1) = 1 /\ Token(d, Min(s1)).text \in VERB_PREFIXES
            THEN OfPrefix(ChildrenWithDep(d, Min(s1), SUBJ_DEPS \cup {"compound"}))
            ELSE s1
        WithConjuncts(s) ==
            IF s = {} THEN {} ELSE Single(s \cup _get_conjuncts(d, Min(s)))
        OfVerb(v) == IF v = NoIdx THEN {} ELSE WithConjuncts(subject(d, v))
    IN  OfVerb(main_verb(d))

\* EDoc.has_main_subject
has_main_subject(d) == main_subject(d) # {}

\* EDoc._get_partitive_head_noun(t), as the set of positions
_get_partitive_head_noun(d, i) ==
    LET Ps == {c \in children(d, i) :
                  Token(d, c).text \in PARTITIVES_P_MAP(Token(d, c).text)}
        WithConjuncts(kids) == kids \cup UNION {_get_conjuncts(d, k) : k \in kids}
        get_of_head_noun == IF Ps # {} THEN WithConjuncts(children(d, Min(Ps))) ELSE {i}
        Indefinite(s_det) ==
            s_det # {} /\ get_morph(Token(d, Min(s_det)), "Definite") = "Ind"
        Of(t) ==
            IF t.text \in PARTITIVES_WITH_P THEN get_of_head_noun
            ELSE IF t.text \in PARTITIVES_OPTIONAL_P
            THEN (IF Ps # {} THEN get_of_head_noun
                  ELSE {c \in children(d, i) : Token(d, c).pos \in NOUN_POS_TAGS})
            ELSE IF /\ t.text \in PARTITIVES_WITH_INDEFINITE_ONLY
                    /\ Indefinite({c \in children(d, i) : Token(d, c).dep = "det"})
            THEN get_of_head_noun
            ELSE {i}
    IN  Of(Token(d, i))

\* EDoc._get_list_noun_number and EDoc._get_noun_number
RECURSIVE _get_noun_number(_, _, _)
RECURSIVE _get_partitive_noun_number(_, _, _)
_get_list_noun_number(d, s, deps) ==
    LET count(dep) == Cardinality({i \in s : Token(d, i).dep = dep})
        num(i)     == IF ~(is_verb(Token(d, i)) /\ can_be_inflected(Token(d, i)))
                      THEN get_morph(Token(d, i), "Number") ELSE "Sing"
        FirstNumber(numbered) ==
            IF numbered # {} THEN get_morph(Token(d, Min(numbered)), "Number")
            ELSE "Sing"
        Trusted(mv) ==
            IF deps = SUBJ_DEPS /\ mv # None THEN mv
            ELSE IF Token(d, Min(s)).text \in ALL_PARTITIVES
            THEN _get_partitive_noun_number(d, Min(s), SUBJ_DEPS)
            ELSE FirstNumber({i \in s : get_morph(Token(d, i), "Number") # None})
    IN  IF Cardinality(s) = 1 THEN _get_noun_number(d, s, SUBJ_DEPS)
        ELSE IF (\E dep \in deps : count(dep) = 1) /\ count("attr") = 1
        THEN IF \A i \in s : num(i) = "Sing" THEN "Sing"
             ELSE Trusted(get_morph(Token(d, main_verb(d)), "Number"))
        ELSE IF count("expl") = 1 /\ (\E dep \in OBJ_DEPS : count(dep) = 1)
        THEN _get_noun_number(
                 d,
                 {i \in s : Token(d, i).dep \in
                                {dep \in OBJ_DEPS : count(dep) = 1 /\ dep # "expl"}},
                 SUBJ_DEPS)
        ELSE "Plur"

_get_noun_number(d, s, deps) ==
    LET Single(t, det, tagd) ==
            IF is_verb(t) /\ ~can_be_inflected(t) THEN "Sing"
            ELSE IF \/ t.dep \in {"csubj", "csubjpass"}
                    \/ (t.dep \in OBJ_DEPS /\ t.tag \in {"WP", "WD", "WDT"})
                 THEN "Sing"
            ELSE IF t.text \in ALL_PARTITIVES
                 THEN _get_partitive_noun_number(d, t.i, SUBJ_DEPS)
            ELSE IF /\ Cardinality(det) > 1
                    /\ tagd # {}
                    /\ get_morph(Token(d, Min(tagd)), "Number") # None
                 THEN get_morph(Token(d, Min(tagd)), "Number")
            ELSE IF /\ Cardinality(det) = 1
                    /\ get_morph(Token(d, Min(det)), "Number") # None
                    /\ Token(d, Min(det)).tag \in DET_TAGS
                    /\ Token(d, Min(det)).text \notin ALL_PARTITIVES
                 THEN get_morph(Token(d, Min(det)), "Number")
            ELSE IF /\ t.text \in PLURALS_WITH_NO_DETERMINERS
                    /\ \/ det = {}
                       \/ (Cardinality(det) = 1 /\ Token(d, Min(det)).text = "all")
                 THEN "Plur"
            ELSE IF get_morph(t, "Number") # None THEN get_morph(t, "Number")
            ELSE IF t.pos = "ADJ" /\ NUMBERS_FOR_ADJECTIVES_USED_AS_NOUNS(t.text) # None
                 THEN NUMBERS_FOR_ADJECTIVES_USED_AS_NOUNS(t.text)
            ELSE "Sing"
        OfDet(i, det) ==
            Single(Token(d, i), det, {c \in det : Token(d, c).tag \in DET_TAGS})
        Of(i) == OfDet(i, determiner(d, i))
    IN  IF s = {} THEN "Sing"
        ELSE IF Cardinality(s) > 1 THEN _get_list_noun_number(d, s, deps)
        ELSE Of(Min(s))

\* EDoc._get_partitive_noun_number(s), s a partitive at position i
_get_partitive_noun_number(d, i, deps) ==
    LET process_default(t, j, det, tagd) ==
            IF /\ t.text = "number"
               /\ \E c \in det : get_morph(Token(d, c), "Definite") = "Ind"
               /\ \E c \in children(d, j) :
                     Token(d, c).text \in PARTITIVES_P_MAP(Token(d, c).text)
            THEN "Plur"
            ELSE IF /\ t.pos = "ADJ"
                    /\ \/ \E c \in children(d, j) : Token(d, c).text = "most"
                       \/ get_morph(t, "Degree") = "Sup"
            THEN "Plur"
            ELSE IF get_morph(t, "Number") # None THEN get_morph(t, "Number")
            ELSE IF t.text \in {"Some", "some", "Any", "any"} THEN "Plur"
            ELSE IF is_verb(t) /\ ~can_be_inflected(t) THEN "Sing"
            ELSE IF tagd # {} /\ get_morph(Token(d, Min(tagd)), "Number") # None
            THEN get_morph(Token(d, Min(tagd)), "Number")
            ELSE "Sing"
        Default(j, det) ==
            process_default(Token(d, j), j, det,
                            {c \in det : Token(d, c).tag \in DET_TAGS})
        process_head_noun(head_noun) ==
            IF head_noun = {} THEN Default(i, determiner(d, i))
            ELSE IF Cardinality(head_noun) = 1
            THEN Default(Min(head_noun), determiner(d, Min(head_noun)))
            ELSE _get_list_noun_number(d, head_noun, deps)
    IN  process_head_noun(_get_partitive_head_noun(d, i))

\* EDoc.main_subject_number; without a main verb the read of its features
\* raises AttributeError
main_subject_number(d) ==
    LET Trust(n) ==
            IF n # None THEN n ELSE _get_noun_number(d, main_subject(d), SUBJ_DEPS)
    IN  IF main_verb(d) = NoIdx THEN "AttributeError"
        ELSE Trust(get_morph(Token(d, main_verb(d)), "Number"))

\* EDoc.main_object, as the set of positions (empty is None)
main_object(d) ==
    LET WithConjuncts(o) == o \cup UNION {_get_conjuncts(d, i) : i \in o}
    IN  WithConjuncts(object(d, main_verb(d)))

\* EDoc.has_main_object
has_main_object(d) == main_object(d) # {}

\* EDoc.main_object_number: None when the sentence has no object, and
\* AttributeError when it has no main verb
main_object_number(d) ==
    LET Of(o) ==
            IF o = {} THEN None
            ELSE IF Cardinality(o) > 1 THEN _get_list_noun_number(d, o, OBJ_DEPS)
            ELSE IF Token(d, Min(o)).text \in ALL_PARTITIVES
            THEN _get_partitive_noun_number(d, Min(o), OBJ_DEPS)
            ELSE _get_noun_number(d, o, OBJ_DEPS)
    IN  IF main_verb(d) = NoIdx THEN "AttributeError" ELSE Of(main_object(d))

\* EDoc._main_subject_index (NoIdx is None)
_main_subject_index(d) ==
    LET Last(s) == IF s = {} THEN NoIdx ELSE Max(s) + 1
    IN  Last(main_subject(d))

\* the first aux/auxpass child of v if it has one, else v
AuxOrSelf(d, v) ==
    LET First(a) == IF a = {} THEN v ELSE Min(a)
    IN  First(ChildrenWithDep(d, v, {"aux", "auxpass"}))

\* EDoc.main_clause_verbs, as the set of positions (the code sorts them)
main_clause_verbs(d) ==
    LET Verbal(x) == is_aux(Token(d, x)) \/ is_verb(Token(d, x))
        Kept(vs) == {x \in vs : Verbal(x) /\ Token(d, x).tag # "VBG"}
        WithAux(vs) == Kept({AuxOrSelf(d, x) : x \in vs})
        Nested(vs) ==
            WithAux(vs \cup UNION {{c \in _get_conjuncts(d, x) : Verbal(c)} : x \in vs})
        OfRoot(v, vs) ==
            Nested(IF is_aux(Token(d, v)) THEN vs \cup _get_conjuncts(d, root(d))
                   ELSE vs)
        Of(v) == OfRoot(v, {v} \cup {c \in _get_conjuncts(d, v) : Verbal(c)})
    IN  Of(main_verb(d))

\* EDoc._can_be_inverted_subject; s is the set of subject positions
_can_be_inverted_subject(d, s, v) ==
    LET Clausal(t) ==
            /\ t.dep \in {"csubj", "csubjpass"}
            /\ (\/ t.tag \notin {"VBG", "VBN", "VB", "VBZ"}
                \/ get_morph(t, "VerbForm") = "Inf")
    IN  ~Clausal(Token(d, Min(s))) /\ ~(v < Min(s))

\* the first subject search of can_form_polar_question: climb the heads
\* from x until a token with a subject; NoIdx when the search gives up
RECURSIVE ClimbBelowRoot(_, _, _)
ClimbBelowRoot(d, x, limit) ==
    LET Up(h) ==
            IF Token(d, h).dep = "ROOT" THEN NoIdx
            ELSE IF limit + 1 > LOOK_FOR_SUBJECTS_LIMIT THEN NoIdx
            ELSE ClimbBelowRoot(d, h, limit + 1)
    IN  IF has_subject(d, x) THEN x ELSE Up(head_of(d, x))

\* the second subject search of can_form_polar_question
RECURSIVE ClimbToSubject(_, _, _)
ClimbToSubject(d, x, limit) ==
    IF has_subject(d, x) THEN x
    ELSE IF limit + 1 > LOOK_FOR_SUBJECTS_LIMIT THEN NoIdx
    ELSE ClimbToSubject(d, head_of(d, x), limit + 1)

\* a label that does not tell the auxiliaries apart
AnyAux(d, v) == <<"do", "AUX">>

\* the auxiliary a verb needs in a question: its own lemma and tag, or 'do'
AuxLabel(d, v) ==
    IF is_aux(Token(d, v)) THEN <<Token(d, v).lemma, Token(d, v).pos>>
    ELSE <<"do", "AUX">>

\* the verb whose subject a main clause verb v would invert with in
\* can_form_polar_question (NoIdx: the sentence is rejected)
InvertedSubjectOf(d, v) ==
    LET Invertible(n) ==
            IF n = NoIdx THEN NoIdx
            ELSE IF _can_be_inverted_subject(d, subject(d, n), n) THEN n
            ELSE NoIdx
    IN  Invertible(ClimbBelowRoot(d, v, 0))

\* v.text.startswith("'") on the contracted verbs of English
IsContracted(text) == text \in {"'s", "'re", "'ve", "'d", "'ll", "'m"}

\* EDoc.can_form_polar_question
can_form_polar_question(d) ==
    LET \* the subject an auxiliary would be moved in front of, per verb
        Shared(v) == Min(subject(d, ClimbToSubject(d, v, 0)))
        NoWhich(ss) ==
            \A x \in ss \cup UNION {determiner(d, y) : y \in ss} :
                Token(d, x).text # "which"
        Verbs(vs) ==
            /\ vs # {}
            /\ \A v \in vs : ~IsContracted(Token(d, v).text)
            /\ \A v \in vs : InvertedSubjectOf(d, v) # NoIdx
            /\ NoWhich(UNION {subject(d, InvertedSubjectOf(d, v)) : v \in vs})
            /\ \A v \in vs : get_morph(Token(d, v), "VerbForm") # "Inf"
            /\ \A v \in vs : is_aux(Token(d, v)) \/ can_be_inflected(Token(d, v))
            /\ \A v \in vs : ClimbToSubject(d, v, 0) # NoIdx
            /\ \A v, w \in vs : Shared(v) = Shared(w) => AuxLabel(d, v) = AuxLabel(d, w)
        Final(t) == t.text \in {".", "!"} /\ t.dep = "punct"
    IN  /\ Final(Token(d, Len(d) - 1))
        /\ main_verb(d) # NoIdx
        /\ Verbs(main_clause_verbs(d))

\* the position of the first subject token itself
SubjectHeadIndex(d, s) == Min(s)

\* EDoc._get_subject_initial_index: the earliest position of the subject
\* tokens and of everything below them
RECURSIVE Below(_, _, _)
Below(d, S, fuel) ==
    LET Deeper(c) == IF c = {} \/ fuel = 0 THEN {} ELSE c \cup Below(d, c, fuel - 1)
    IN  Deeper(UNION {children(d, x) : x \in S})

\* the position of the subject head instead of the start of its phrase
SubjectHeadOnly(d, s) == Min(s)

_get_subject_initial_index(d, s) == Min(s \cup Below(d, s, Len(d)))

-----------------------------------------------------------------------------
(* Verb inflection                                                         *)

\* the entries of CONJUGATE_MAP for the verbs of the model's lexicon;
\* number is SG, PL, 'any' or None, the result None is a missing entry
CONJUGATE_MAP(text, number, tense) ==
    IF text \in {"used", "uses"} THEN
        (IF number = PL /\ tense = PRESENT THEN "use"
         ELSE IF number = "any" /\ tense = INFINITIVE THEN "use" ELSE None)
    ELSE IF text = "use" THEN
        (IF number = "any" /\ tense = INFINITIVE THEN "use" ELSE None)
    ELSE IF text \in {"lay", "lays", "laid"} THEN
        (IF number = SG /\ tense = PRESENT THEN "lays"
         ELSE IF number = PL /\ tense = PRESENT THEN "lay"
         ELSE IF number = "any" /\ tense = PAST THEN "laid"
         ELSE IF number = "any" /\ tense = INFINITIVE /\ text # "lay" THEN "lay"
         ELSE None)
    ELSE IF text = "sang" THEN
        (IF number = SG /\ tense = PRESENT THEN "sings"
         ELSE IF number = PL /\ tense = PRESENT THEN "sing"
         ELSE IF number = "any" /\ tense \in {PAST, INFINITIVE} THEN "sang"
         ELSE None)
    ELSE IF text \in {"sing", "sings"} THEN
        (IF number = "any" /\ tense = PAST THEN "sang" ELSE None)
    ELSE None

\* the entries of HOMOPHONOUS_VERBS for the verbs of the model's lexicon
HOMOPHONOUS_VERBS(text, number, tense) ==
    IF text = "lay" THEN
        (IF number = SG /\ tense = PRESENT THEN "lies"
         ELSE IF number = PL /\ tense = PRESENT THEN "lie"
         ELSE IF number = "any" /\ tense = INFINITIVE THEN "lie" ELSE None)
    ELSE IF text \in {"lie", "lies"} THEN
        (IF number = "any" /\ tense = PAST THEN "lay" ELSE None)
    ELSE None

\* v.text in HOMOPHONOUS_VERBS and HOMOPHONOUS_VERBS[v.text]['condition'](v)
HomophoneCondition(d, i) ==
    LET t == Token(d, i)
    IN  IF t.text = "lay" THEN is_intransitive(d, i)
        ELSE IF t.text \in {"lie", "lies"}
        THEN /\ is_intransitive(d, i)
             /\ ~\E c \in children(d, i) :
                    \/ (Token(d, c).dep = "prep" /\ Token(d, c).text = "about")
                    \/ Token(d, c).dep = "ccomp"
        ELSE FALSE

\* the verbs pattern.en knows in this model: <<forms, lemma, third person
\* singular present, other present, past singular, past plural>>
Verbs ==
    { <<{"bark", "barks", "barked"}, "bark", "barks", "bark", "barked", "barked">>,
      <<{"do", "does", "did"}, "do", "does", "do", "did", "did">>,
      <<{"be", "is", "are", "was", "were"}, "be", "is", "are", "was", "were">>,
      <<{"use", "uses", "used"}, "use", "uses", "use", "used", "used">>,
      <<{"lay", "lays", "laid"}, "lay", "lays", "lay", "laid", "laid">>,
      <<{"lie", "lies", "lied"}, "lie", "lies", "lie", "lied", "lied">>,
      <<{"sing", "sings", "sang"}, "sing", "sings", "sing", "sang", "sang">>,
      <<{"own", "owns", "owned"}, "own", "owns", "own", "owned", "owned">>,
      <<{"go", "goes", "went"}, "go", "goes", "go", "went", "went">> }

\* pattern.en conjugate(verb, number=..., tense=...): the verb is looked up
\* in lower case; a missing number is SG, a missing tense PRESENT, and the
\* person is the third; a verb that is not known gives the empty result
conjugate(text, number, tense) ==
    LET Form(v, n, t) ==
            IF t = INFINITIVE THEN v[2]
            ELSE IF t = PRESENT THEN (IF n = SG THEN v[3] ELSE v[4])
            ELSE (IF n = SG THEN v[5] ELSE v[6])
        Lookup(w) ==
            IF ~\E v \in Verbs : w \in v[1] THEN None
            ELSE Form(CHOOSE v \in Verbs : w \in v[1],
                      IF number = None THEN SG ELSE number,
                      IF tense = None THEN PRESENT ELSE tense)
    IN  Lookup(Decapitalize(text))

\* the outcome of an operation on one token
TokOk(t) == [ok |-> TRUE, err |-> None, tok |-> t]

TokErr(e, t) == [ok |-> FALSE, err |-> e, tok |-> t]

\* the form of the generic conjugator, whatever CONJUGATE_MAP holds
ConjugatorOnly(text, cn, ct) == conjugate(text, cn, ct)

\* the new form of a verb: the exact entry of CONJUGATE_MAP, else its 'any'
\* entry, else the form of the conjugator
ConjugatedForm(text, cn, ct) ==
    IF CONJUGATE_MAP(text, cn, ct) # None
       THEN CONJUGATE_MAP(text, cn, ct)
    ELSE IF CONJUGATE_MAP(text, "any", ct) # None
       THEN CONJUGATE_MAP(text, "any", ct)
    ELSE conjugate(text, cn, ct)

\* EToken.reinflect(number, tense, **kwargs) on the token t copied from
\* position t.i of d; person is the only keyword the callers pass
reinflect(d, t, number0, tense0, person) ==
    LET Form(cn, ct) == ConjugatedForm(t.text, cn, ct)
        Tag(cn, ct) ==
            IF ct = PAST THEN "VBD"
            ELSE IF ct = INFINITIVE THEN "VB"
            ELSE IF ct = PRESENT /\ cn = SG THEN "VBZ"
            ELSE IF ct = PRESENT /\ cn = PL THEN "VBP"
            ELSE t.tag
        Person(t3) == IF person # None THEN set_morph(t3, "person", person) ELSE t3
        Infinitive(t2, tense) ==
            Person(IF tense = INFINITIVE
                   THEN set_morph(set_morph(t2, "VerbForm", "Inf"), "Tense", None)
                   ELSE t2)
        Morphs(t1, tense, cn, ct) ==
            Infinitive(
                set_morph(
                    set_morph(t1, "Number",
                              IF cn = SG THEN "Sing" ELSE IF cn = PL THEN "Plur"
                              ELSE None),
                    "Tense",
                    IF ct = PAST THEN "Past" ELSE IF ct = PRESENT THEN "Pres"
                    ELSE None),
                tense)
        Set(text, tense, cn, ct) ==
            IF text = None THEN TokErr("ParseError", t)
            ELSE TokOk([Morphs([t EXCEPT !.text = IF t.sent_start
                                                   THEN Capitalize(text) ELSE text],
                               tense, cn, ct)
                        EXCEPT !.tag = Tag(cn, ct)])
        Mapped(tense, cn, ct) ==
            IF /\ t.text = "used"
               /\ ChildrenWithDep(d, t.i, {"xcomp"}) # {}
               /\ tense = PRESENT
            THEN TokErr("ValueError", t)
            ELSE Set(Form(cn, ct), tense, cn, ct)
        Given(number, tense) == Mapped(tense, NUMBER_MAP(number), TENSE_MAP(tense))
    IN  IF ~can_be_inflected(t) THEN TokErr("ValueError", t)
        ELSE IF number0 = None /\ tense0 = None THEN TokErr("ValueError", t)
        ELSE Given(IF number0 = None THEN get_morph(t, "Number") ELSE number0,
                   IF tense0 = None THEN get_morph(t, "Tense") ELSE tense0)

\* every verb is reinflected, also one that has the tense asked for
ReinflectAlways(d, v, number, tense) == reinflect(d, Token(d, v), number, tense, None)

\* one pass of the loop of reinflect_main_verb over the verb at position v
ReinflectVerb(d, v, number, tense) ==
    LET morphed(t, text) ==
            set_morph(
                set_morph([t EXCEPT !.text = text], "Number",
                          IF NUMBER_MAP(number) = SG THEN "Sing" ELSE "Plur"),
                "Tense", IF TENSE_MAP(tense) = PRESENT THEN "Pres" ELSE "Past")
        Homophone(t, d_number, d_tense) ==
            IF HOMOPHONOUS_VERBS(t.text, d_number, d_tense) # None
               THEN TokOk(morphed(t, HOMOPHONOUS_VERBS(t.text, d_number, d_tense)))
            ELSE IF HOMOPHONOUS_VERBS(t.text, "any", d_tense) # None
               THEN TokOk(morphed(t, HOMOPHONOUS_VERBS(t.text, "any", d_tense)))
            ELSE reinflect(d, t, number, tense, None)
        Of(t) ==
            IF TENSE_MAP(get_morph(t, "Tense")) = TENSE_MAP(tense) THEN TokOk(t)
            ELSE IF HomophoneCondition(d, v)
            THEN Homophone(t,
                           IF number = "Sing" THEN "singular" ELSE "plural",
                           IF tense = PRESENT THEN "present" ELSE "past")
            ELSE reinflect(d, t, number, tense, None)
    IN  Of(Token(d, v))

\* in questions, "did ... use(d) to" cannot be made present tense
QuestionUsedTo(d, v, tense) ==
    /\ Token(d, v).lemma = "do"
    /\ is_aux(Token(d, v))
    /\ Token(d, head_of(d, v)).text \in {"use", "used"}
    /\ ChildrenWithDep(d, head_of(d, v), {"xcomp"}) # {}
    /\ tense = PRESENT

\* EDoc.reinflect_main_verb(number, tense)
reinflect_main_verb(d, number, tense) ==
    LET Replaced(all_vs, done, failed) ==
            IF failed # {} THEN Err(done[Min(failed)].err)
            ELSE copy_with_replace(d, [k \in DOMAIN all_vs |-> done[k].tok], all_vs)
        Looped(all_vs, done) ==
            Replaced(all_vs, done, {k \in DOMAIN all_vs : ~done[k].ok})
        Loop(all_vs) ==
            IF \E k \in DOMAIN all_vs : QuestionUsedTo(d, all_vs[k], tense)
            THEN Err("ValueError")
            ELSE IF all_vs # <<>> /\ TENSE_MAP(tense) = None THEN Err("KeyError")
            ELSE Looped(all_vs,
                        [k \in DOMAIN all_vs |->
                            ReinflectVerb(d, all_vs[k], number, tense)])
    IN  IF main_verb(d) = NoIdx THEN Err("AttributeError")
        ELSE IF \/ ~can_be_inflected(Token(d, main_verb(d)))
                \/ get_morph(Token(d, main_verb(d)), "VerbForm") = "Inf"
        THEN Err("ValueError")
        ELSE Loop(SortedSeq(main_clause_verbs(d)))

\* EDoc.make_main_verb_past_tense
make_main_verb_past_tense(d) ==
    IF main_verb(d) = NoIdx THEN Err("AttributeError")
    ELSE IF \A v \in main_clause_verbs(d) : get_morph(Token(d, v), "Tense") = "Past"
    THEN Same
    ELSE reinflect_main_verb(d, main_subject_number(d), PAST)

\* EDoc.make_main_verb_present_tense
make_main_verb_present_tense(d) ==
    IF main_verb(d) = NoIdx THEN Err("AttributeError")
    ELSE IF \A v \in main_clause_verbs(d) : get_morph(Token(d, v), "Tense") = "Pres"
    THEN Same
    ELSE reinflect_main_verb(d, main_subject_number(d), PRESENT)

-----------------------------------------------------------------------------
(* Interveners, distractors and the structures they are embedded in        *)

\* clause (v) of the intervener filter: the four partitive tests, conjoined
PartitiveHead(d, i) ==
    LET Tests(t, det) ==
            /\ t.text \in PARTITIVES_WITH_P \cup PARTITIVES_OPTIONAL_P
            /\ \E c \in children(d, i) :
                  Token(d, c).text \in PARTITIVES_P_MAP(Token(d, c).text)
            /\ t.text \in PARTITIVES_WITH_INDEFINITE_ONLY
            /\ Cardinality(det) > 1
            /\ ~\E c \in det : get_morph(Token(d, c), "Definite") = "Ind"
            /\ Cardinality(det) = 1
            /\ get_morph(Token(d, Min(det)), "Definite") # "Ind"
            /\ t.text \in PARTITIVES_OPTIONAL_P
            /\ children(d, i) # {}
    IN  Tests(Token(d, i), determiner(d, i))

\* EDoc.main_subject_verb_interveners, as the set of positions: the slice
\* self[s_loc+1:v_loc], where s_loc is the last position of a subject
\* expanded by its partitive head nouns, and one more than the last
\* position (_main_subject_index) of any other subject
main_subject_verb_interveners(d) ==
    LET Between(s_loc, v_loc) ==
            IF s_loc = NoIdx THEN {}
            ELSE IF s_loc + 1 >= v_loc THEN {}
            ELSE {i \in (s_loc + 1)..(v_loc - 1) :
                    /\ \/ i + 1 = v_loc
                       \/ (/\ Token(d, i + 1).tag # Token(d, i).tag
                           /\ Token(d, i + 1).pos # Token(d, i).pos)
                    /\ Token(d, i).pos \in {"NOUN", "PROPN"}
                    /\ Token(d, i).dep \notin {"compound", "nmod"}
                    /\ ~PartitiveHead(d, i)}
        Expanded(s, parts) ==
            s \cup UNION {_get_partitive_head_noun(d, i) : i \in parts}
        Loc(s, parts) ==
            IF s = {} THEN NoIdx
            ELSE IF parts # {} THEN Max(Expanded(s, parts))
            ELSE Max(s) + 1
        Of(s) == Loc(s, {i \in s : Token(d, i).text \in ALL_PARTITIVES})
    IN  Between(Of(main_subject(d)), main_verb(d))

\* EDoc.has_main_subject_verb_interveners
has_main_subject_verb_interveners(d) == main_subject_verb_interveners(d) # {}

\* the number of an intervener without the default: t.get_morph('Number')
FeatureOnly(d, i) == get_morph(Token(d, i), "Number")

\* the number of an intervener: (t.get_morph('Number') or 'Sing')
IntervenerNumber(d, i) ==
    IF get_morph(Token(d, i), "Number") # None
    THEN get_morph(Token(d, i), "Number") ELSE "Sing"

\* EDoc.main_subject_verb_distractors, as the set of positions
main_subject_verb_distractors(d) ==
    LET Mismatched(n) ==
            {i \in main_subject_verb_interveners(d) : IntervenerNumber(d, i) # n}
    IN  Mismatched(main_subject_number(d))

\* EDoc.has_main_subject_verb_distractors
has_main_subject_verb_distractors(d) == main_subject_verb_distractors(d) # {}

\* EDoc._get_path(fr, to), as the sequence of positions
RECURSIVE _get_path(_, _, _, _)
_get_path(d, fr, to, fuel) ==
    IF fr = to THEN <<fr>>
    ELSE IF head_of(d, fr) = to THEN <<fr, to>>
    ELSE IF head_of(d, fr) = fr \/ fuel = 0 THEN <<>>
    ELSE <<fr>> \o _get_path(d, head_of(d, fr), to, fuel - 1)

\* list(dict.fromkeys(seq)): every repeat after the first is dropped
RECURSIVE FromKeys(_)
FromKeys(seq) ==
    LET Add(init, x) == IF x \in Range(init) THEN init ELSE Append(init, x)
    IN  IF seq = <<>> THEN <<>>
        ELSE Add(FromKeys(SubSeq(seq, 1, Len(seq) - 1)), seq[Len(seq)])

\* [x for x in seq if not x in EXCLUDE_DEPS]
RECURSIVE DropExcluded(_)
DropExcluded(seq) ==
    IF seq = <<>> THEN <<>>
    ELSE IF Head(seq) \in EXCLUDE_DEPS THEN DropExcluded(Tail(seq))
    ELSE <<Head(seq)>> \o DropExcluded(Tail(seq))

\* ','.join(seq)
RECURSIVE Join(_)
Join(seq) ==
    IF seq = <<>> THEN ""
    ELSE IF Len(seq) = 1 THEN seq[1]
    ELSE seq[1] \o "," \o Join(Tail(seq))

\* the labels of the path from the noun at position i to the subject head
StructureLabels(d, i) ==
    LET Labels(path) ==
            DropExcluded(FromKeys([k \in DOMAIN path |->
                                      STRUCTURE_MAP(Token(d, path[k]).dep)]))
        ToRoot(path) == SubSeq(path, 1, Len(path) - 1)
        Path(path1) ==
            Labels(IF path1 # <<>> THEN path1
                   ELSE ToRoot(_get_path(d, i, root(d), Len(d))))
        To(s) == Path(SelectSeq(_get_path(d, i, s, Len(d)), LAMBDA x : x # s))
    IN  To(Max(main_subject(d)))

\* EDoc.main_subject_verb_distractor_structures: one label per distractor,
\* in sentence order; <<>> stands for both None and the empty list
main_subject_verb_distractor_structures(d) ==
    LET Joined(kept) == [k \in DOMAIN kept |-> Join(FromKeys(kept[k]))]
        Of(ds) ==
            Joined(SelectSeq([k \in DOMAIN ds |-> StructureLabels(d, ds[k])],
                             LAMBDA q : q # <<>>))
    IN  Of(SortedSeq(main_subject_verb_distractors(d)))

-----------------------------------------------------------------------------
(* Noun number                                                             *)

\* the nouns pattern.en knows in this model: <<singular, plural>>
Nouns ==
    { <<"dog", "dogs">>, <<"key", "keys">>, <<"door", "doors">>,
      <<"man", "men">>, <<"bone", "bones">> }

\* pattern.en singularize(word): a word that is no plural is returned as is
pattern_singularize(w) ==
    IF \E n \in Nouns : n[2] = w THEN (CHOOSE n \in Nouns : n[2] = w)[1] ELSE w

\* pattern.en pluralize(word): a word it does not know gets an s
pattern_pluralize(w) ==
    IF \E n \in Nouns : n[1] = w THEN (CHOOSE n \in Nouns : n[1] = w)[2]
    ELSE w \o "s"

SINGULARIZE_MAP(w) ==
    IF w = "these" THEN "this" ELSE IF w = "those" THEN "that"
    ELSE IF w = "all" THEN "every" ELSE None

PLURALIZE_MAP(w) == IF w = "the" THEN "the" ELSE None

\* EToken.can_be_numbered
can_be_numbered(t) == t.pos \in {"NOUN", "PRON", "DET"}

\* the token with a new form, number feature and tag
Numbered(t, text, number, tag) ==
    [set_morph([t EXCEPT !.text = IF t.sent_start THEN Capitalize(text) ELSE text],
               "Number", number) EXCEPT !.tag = tag]

\* EToken.singularize
singularize(t) ==
    LET Form(w) == IF SINGULARIZE_MAP(w) # None THEN SINGULARIZE_MAP(w)
                   ELSE pattern_singularize(w)
    IN  IF get_morph(t, "Number") = "Sing" THEN t
        ELSE Numbered(t, Form(Decapitalize(t.text)), "Sing", "NN")

\* EToken.pluralize
pluralize(t) ==
    LET Form(w) == IF PLURALIZE_MAP(w) # None THEN PLURALIZE_MAP(w)
                   ELSE pattern_pluralize(w)
    IN  IF get_morph(t, "Number") = "Plur" THEN t
        ELSE Numbered(t, Form(Decapitalize(t.text)), "Plur", "NNS")

\* EToken.renumber(number)
renumber(t, number) ==
    IF ~can_be_numbered(t) THEN TokErr("ValueError", t)
    ELSE IF NUMBER_MAP(number) = None THEN TokErr("KeyError", t)
    ELSE IF NUMBER_MAP(number) = SG THEN TokOk(singularize(t))
    ELSE TokOk(pluralize(t))

\* EDoc.has_conjoined_main_subject
has_conjoined_main_subject(d) ==
    LET Conjoined(s) == Cardinality(s) > 1 /\ _get_conjuncts(d, Min(s)) # {}
    IN  Conjoined(main_subject(d))

\* EDoc._remove_conjunctions_to_main_subject: _copy_with_remove is called
\* without its second required argument
_remove_conjunctions_to_main_subject(d) ==
    IF ~has_conjoined_main_subject(d) THEN Same ELSE Err("TypeError")

\* EDoc.renumber_main_subject(number)
renumber_main_subject(d, number) ==
    LET Replaced(idx, done, failed) ==
            IF failed # {} THEN Err(done[Min(failed)].err)
            ELSE copy_with_replace(d, [k \in DOMAIN idx |-> done[k].tok], idx)
        Renumbered(idx, done) == Replaced(idx, done, {k \in DOMAIN idx : ~done[k].ok})
        \* the subject, its determiner(s) and the main verb, in this order
        Tokens(idx) ==
            Renumbered(idx,
                       [k \in DOMAIN idx |->
                           IF k = Len(idx)
                           THEN reinflect(d, Token(d, idx[k]), number, None, None)
                           ELSE renumber(Token(d, idx[k]), number)])
        Of(s) ==
            IF Cardinality(s) # 1 THEN Err("AttributeError")
            ELSE IF /\ Token(d, Min(s)).text \in ALL_PARTITIVES
                    /\ has_main_subject_verb_distractors(d)
            THEN Err("NotImplementedError")
            ELSE Tokens(<<Min(s)>> \o SortedSeq(determiner(d, Min(s)))
                                   \o <<main_verb(d)>>)
    IN  IF has_conjoined_main_subject(d) /\ NUMBER_MAP(number) = SG
        THEN _remove_conjunctions_to_main_subject(d)
        ELSE Of(main_subject(d))

\* EDoc.main_subject_verb_distractors_determiners
main_subject_verb_distractors_determiners(d) ==
    LET Mismatched(n) ==
            {i \in main_subject_verb_interveners(d) :
                get_morph(Token(d, i), "Number") # n}
        Determiners(distractors) ==
            UNION {{c \in children(d, i) : Token(d, i).dep = "det"} : i \in distractors}
    IN  Determiners(Mismatched(main_subject_number(d)))

\* no sentence is returned: the function ends without a return statement
ReturnsNone == [ok |-> FALSE, err |-> "None", doc |-> <<>>, same |-> FALSE]

\* EDoc.renumber_main_subject_verb_distractors(number)
renumber_main_subject_verb_distractors(d, number) ==
    LET f(t) == IF NUMBER_MAP(number) = SG THEN singularize(t) ELSE pluralize(t)
        Replaced(idx) ==
            copy_with_replace(d, [k \in DOMAIN idx |-> f(Token(d, idx[k]))], idx)
        Of(ds, dds) == IF ds = <<>> THEN ReturnsNone ELSE Replaced(ds \o dds)
    IN  IF NUMBER_MAP(number) = None THEN Err("KeyError")
        ELSE IF main_verb(d) = NoIdx THEN Err("AttributeError")
        ELSE Of(SortedSeq(main_subject_verb_distractors(d)),
                SortedSeq(main_subject_verb_distractors_determiners(d)))

-----------------------------------------------------------------------------
(* Polar questions                                                         *)

\* Q_DO as built by EDoc._get_aux(v) for a verb that needs do-support
Q_DO(v) ==
    FormatToken(
        [text |-> "do", ws |-> TRUE, tag |-> "VBP", pos |-> "AUX",
         morph |-> [NoMorph EXCEPT !.Mood = "Ind", !.Tense = "Pres",
                                   !.VerbForm = "Fin", !.Number = "Plur"],
         lemma |-> "do", dep |-> "aux", head |-> v, sent_start |-> FALSE,
         i |-> NoIdx, head_i |-> NoIdx])

\* v.is_aux and not v.lemma_ == 'get': _get_aux returns the verb itself
IsOwnAux(t) == is_aux(t) /\ t.lemma # "get"

\* while next_v.head.is_aux: next_v = next_v.head (NoIdx: the loop never
\* ends, because an auxiliary root is its own head)
RECURSIVE AuxChainTop(_, _, _)
AuxChainTop(d, x, fuel) ==
    LET Up(h) == IF ~is_aux(Token(d, h)) THEN x
                 ELSE IF h = x \/ fuel = 0 THEN NoIdx
                 ELSE AuxChainTop(d, h, fuel - 1)
    IN  Up(head_of(d, x))

\* while not next_v.subject: next_v = next_v.head (NoIdx: never ends)
RECURSIVE SubjectHolder(_, _, _)
SubjectHolder(d, x, fuel) ==
    IF has_subject(d, x) THEN x
    ELSE IF head_of(d, x) = x \/ fuel = 0 THEN NoIdx
    ELSE SubjectHolder(d, head_of(d, x), fuel - 1)

\* the n't tokens among the neg children of v and of its head, in the
\* order of negs (empty unless v.is_negative)
NtOf(d, v) ==
    LET own  == SortedSeq(ChildrenWithDep(d, v, {"neg"}))
        up   == SortedSeq(ChildrenWithDep(d, head_of(d, v), {"neg"}))
    IN  IF is_negative(d, v)
        THEN SelectSeq(own \o up, LAMBDA n : Token(d, n).text = "n't")
        ELSE <<>>

\* the subject a verb inverts with in make_sentence_polar_question:
\* [hang, own (v_has_subject), s (positions)]
QuestionSubject(d, v) ==
    LET Hang == [hang |-> TRUE, own |-> FALSE, s |-> {}]
        Held(holder) ==
            IF holder = NoIdx THEN Hang
            ELSE [hang |-> FALSE, own |-> FALSE, s |-> subject(d, holder)]
        Final(top, s1) ==
            IF top = NoIdx THEN Hang
            ELSE IF s1 # {} /\ _can_be_inverted_subject(d, s1, top)
            THEN [hang |-> FALSE, own |-> TRUE, s |-> s1]
            ELSE Held(SubjectHolder(d, v, Len(d)))
        Top(s0, top) ==
            Final(top, IF s0 = {} /\ is_aux(Token(d, v)) /\ top # NoIdx
                       THEN ChildrenWithDep(d, head_of(d, top), SUBJ_DEPS)
                       ELSE s0)
        Climb(s0) ==
            Top(s0, IF s0 = {} /\ is_aux(Token(d, v))
                    THEN AuxChainTop(d, v, Len(d)) ELSE v)
        Kids(kids) ==
            Climb(IF \A c \in kids : Token(d, c).dep = "attr" THEN {} ELSE kids)
    IN  Kids(ChildrenWithDep(d, v, SUBJ_DEPS))

\* the number and person the auxiliary is inflected with, and the subject
\* the code holds afterwards: [number, person, s]
AuxAgreement(d, v, s) ==
    LET either(x, y) == IF x = None THEN y ELSE x
        Of(number, person, vs, conj) ==
            IF number # None /\ person # None
            THEN [number |-> number, person |-> person, s |-> s]
            ELSE IF Cardinality(vs) > 1
            THEN [number |-> either(number, _get_list_noun_number(d, vs, SUBJ_DEPS)),
                  person |-> either(person, "3"), s |-> vs]
            ELSE IF conj # {}
            THEN [number |-> either(number,
                                    _get_list_noun_number(d, vs \cup conj, SUBJ_DEPS)),
                  person |-> either(person, "3"), s |-> vs]
            ELSE [number |-> either(number, _get_noun_number(d, vs, SUBJ_DEPS)),
                  person |-> either(get_morph(Token(d, Min(vs)), "Person"), "3"),
                  s |-> vs]
        Subject(number, person, vs) ==
            Of(number, person, vs,
               IF vs = {} THEN {} ELSE _get_conjuncts(d, Min(vs)))
    IN  Subject(get_morph(Token(d, v), "Number"),
                get_morph(Token(d, v), "Person"), subject(d, v))

\* the state of the loop of make_sentence_polar_question
QAcc(q, added) == [ok |-> TRUE, err |-> None, doc |-> q, added |-> added]

QFail(e) == [ok |-> FALSE, err |-> e, doc |-> <<>>, added |-> 0]

\* continue with the Doc of an edit, or stop at its error
QThen(r, added) == IF r.ok THEN QAcc(EDoc(r.doc), added) ELSE QFail(r.err)

\* the position the auxiliary is inserted at, without the running offset
InsertionAtSubject(aux_i, added) == aux_i

\* the position the auxiliary, and n't after it, is inserted at: aux.i+added
InsertionIndex(aux_i, added) == aux_i + added

\* the inversion part of one pass (if v_has_subject): the inflected
\* auxiliary, and n't if there is one, are inserted before the subject;
\* the result carries aux_i, the value of aux.i afterwards
QInvert(d, acc, v, qs) ==
    LET tv      == Token(d, v)
        alias   == IsOwnAux(tv)
        a0      == [(IF alias THEN tv ELSE Q_DO(v)) EXCEPT !.ws = TRUE]
        inflect == can_be_inflected(a0)
        needS   == inflect /\ (get_morph(tv, "Number") = None
                                \/ get_morph(tv, "Person") = None)
        NoAux(e) == QFail(e) @@ [aux_i |-> NoIdx]
        \* n't follows the auxiliary
        Negated(nts, q1, aux_i, vh) ==
            IF q1.ok /\ nts # <<>>
            THEN QThen(copy_with_add(q1.doc,
                                     [Token(d, nts[1]) EXCEPT
                                         !.head_i = vh + q1.added + 1],
                                     InsertionIndex(aux_i, q1.added)),
                       q1.added + 1)
            ELSE q1
        Added(nts, a2, aux_i, vh) ==
            Negated(nts,
                    QThen(copy_with_add(acc.doc,
                                        IF nts # <<>> THEN [a2 EXCEPT !.ws = FALSE]
                                        ELSE a2,
                                        InsertionIndex(aux_i, acc.added)),
                          acc.added + 1),
                    aux_i, vh) @@ [aux_i |-> aux_i]
        Headed(a1, aux_i, vh) ==
            Added(NtOf(d, v),
                  IF alias
                  THEN (IF vh = v
                        THEN [a1 EXCEPT !.i = aux_i, !.dep = "ROOT"]
                        ELSE [a1 EXCEPT !.i = aux_i, !.head_i = vh + acc.added + 1])
                  ELSE [a1 EXCEPT !.i = aux_i, !.head_i = v + acc.added + 1],
                  aux_i, vh)
        Placed(a1, aux_i) ==
            Headed(a1, aux_i,
                   IF alias /\ tv.dep = "ROOT" THEN aux_i ELSE head_of(d, v))
        Inflected(agr, r) ==
            IF inflect /\ ~r.ok THEN NoAux(r.err)
            ELSE Placed(IF inflect THEN r.tok ELSE a0,
                        _get_subject_initial_index(
                            d, IF needS THEN agr.s ELSE qs.s))
        Agreed(agr) ==
            Inflected(agr,
                      IF inflect
                      THEN reinflect(d, a0, agr.number, get_morph(tv, "Tense"),
                                     agr.person)
                      ELSE TokOk(a0))
    IN  IF needS /\ subject(d, v) = {} THEN NoAux("AttributeError")
        ELSE Agreed(IF inflect THEN AuxAgreement(d, v, qs.s)
                    ELSE [number |-> None, person |-> None, s |-> qs.s])

\* one pass of the loop of make_sentence_polar_question, for the verb at v
QStep(d, acc, v) ==
    LET tv    == Token(d, v)
        alias == IsOwnAux(tv)
        Bare(inf, inv) ==
            [set_morph(set_morph(set_morph(inf.tok, "Number", None),
                                 "Tense", None), "VerbForm", "Inf")
                EXCEPT !.head_i = head_of(d, v) + inv.added]
        Unnegated(inv, moved, nts) ==
            IF ~moved.ok \/ nts = <<>> THEN moved
            ELSE IF inv.aux_i = NoIdx THEN QFail("TypeError")
            ELSE QThen(copy_with_remove(moved.doc, <<nts[1] + moved.added>>,
                                        <<inv.aux_i + moved.added>>, FALSE),
                       moved.added - 1)
        Moved(inv, inf) ==
            Unnegated(inv,
                      IF alias
                      THEN QThen(copy_with_remove(inv.doc, <<v + inv.added>>,
                                                  <<inv.aux_i>>, FALSE),
                                 inv.added - 1)
                      ELSE IF ~inf.ok THEN QFail(inf.err)
                      ELSE QThen(copy_with_replace(inv.doc, <<Bare(inf, inv)>>,
                                                   <<v + inv.added>>),
                                 inv.added),
                      NtOf(d, v))
        Inverted(inv) ==
            IF ~inv.ok THEN QFail(inv.err)
            ELSE Moved(inv, reinflect(d, tv, None, INFINITIVE, None))
        Subject(qs) ==
            IF qs.hang THEN QFail("NoReturn")
            ELSE Inverted(IF qs.own THEN QInvert(d, acc, v, qs)
                          ELSE acc @@ [aux_i |-> IF alias THEN v ELSE NoIdx])
    IN  Subject(QuestionSubject(d, v))

\* the loop: for v in vs
RECURSIVE QLoop(_, _, _)
QLoop(d, acc, vs) ==
    IF vs = <<>> \/ ~acc.ok THEN acc
    ELSE QLoop(d, QStep(d, acc, Head(vs)), Tail(vs))

\* a final step that copies the sentence and leaves its punctuation
KeepPunctuation(q) == copy_with_replace(q, <<>>, <<>>)

\* EDoc._get_question_punctuation followed by the final copy_with_replace
_get_question_punctuation(q) ==
    LET Of(final) ==
            IF final.text \notin {"!", "."} \/ final.dep # "punct"
            THEN Err("ParseError")
            ELSE copy_with_replace(q, <<[final EXCEPT !.text = "?"]>>, <<final.i>>)
    IN  Of(Token(q, Len(q) - 1))

\* EDoc.make_sentence_polar_question
make_sentence_polar_question(d) ==
    LET Done(done) == IF ~done.ok THEN Err(done.err)
                      ELSE _get_question_punctuation(done.doc)
    IN  IF ~can_form_polar_question(d) THEN Err("ValueError")
        ELSE Done(QLoop(d, QAcc(d, 0), SortedSeq(main_clause_verbs(d))))

-----------------------------------------------------------------------------
(* Filters (language_funs.py, en/grammar_funs.py).  The raw string is the  *)
(* text of the sentence d and nlp(s) gives d; the tests on the characters  *)
(* of the string are made on the token texts and spaces that spell it.     *)

\* the words of these sets that the lexicon of the model has
COMMON_VERB_TYPOS == {"old"}

MISPARSED_AS_VERBS == {}

BAD_VERB_LEMMAS == {"old"}

BAD_OBJECTS == {"go", "the", "to"}

POSTNOMINAL_ADJS == {}

SUBJ_EXCL_TAGS == {"WP", "WD", "WDT"}

\* the generic dependency labels of the parser
BAD_DEPS == {"dep"}

\* float(text) does not raise
IsFloat(text) == text \in {"0", "1", "2", "3", "4", "5", "6", "7", "8", "9"}

\* A raw string is a sequence of units: a unit is one character that is no
\* letter (a space, a punctuation mark, a digit) or a whole word.  The tests
\* on characters are made on the units; all units are ASCII.
MIN_SENTENCE_LENGTH_IN_CHARS == 2

MAX_SENTENCE_LENGTH_IN_WORDS == 50

VALID_SENTENCE_ENDING_CHARS == {".", "?", "!"}

\* string.punctuation, as far as the strings of the model use it
Punctuation == {".", "?", "!", ",", ";", "/", "(", ")", "$", "-", ":"}

IsPunct(u) == u \in Punctuation

\* a run of letters (n't is written with an apostrophe inside)
IsWord(u) == u # " " /\ ~IsPunct(u) /\ ~IsFloat(u)

\* u[0].islower()
IsLowerInitial(u) == IsWord(u) /\ ~IsUpperInitial(u) /\ u # "n't"

\* len(u) for one unit; 2 stands for two or more characters
CharLen(u) == IF IsWord(u) /\ u \notin {"A", "I", "a"} THEN 2 ELSE 1

\* the text a Doc (or a sequence of ETokens) spells: Doc.text
RECURSIVE Units(_)
Units(d) ==
    IF d = <<>> THEN <<>>
    ELSE <<d[1].text>> \o (IF d[1].ws THEN <<" ">> ELSE <<>>) \o Units(Tail(d))

\* s.split()[0]; <<>> when s.split() is empty
FirstWord(s) ==
    LET From(a) ==
            SubSeq(s, a, Min({k \in a..Len(s) : k = Len(s) \/ s[k + 1] = " "}))
        Start(ks) == IF ks = {} THEN <<>> ELSE From(Min(ks))
    IN  Start({k \in DOMAIN s : s[k] # " "})

\* len(s.split())
WordCount(s) ==
    Cardinality({k \in DOMAIN s : s[k] # " " /\ (k = 1 \/ s[k - 1] = " ")})

\* w.isupper(): at least one letter and no lowercase letter
IsUpperStr(w) ==
    /\ \E k \in DOMAIN w : IsWord(w[k])
    /\ \A k \in DOMAIN w : IsWord(w[k]) => w[k] \in AllCaps

\* any(c in s for c in EXCLUSION_STRINGS), for the strings of the model
EXCLUSION_STRINGS(s) ==
    \/ \E k \in DOMAIN s : s[k] \in {";", "/", "n't"}
    \/ \E k \in 1..(Len(s) - 1) : s[k] = " " /\ s[k + 1] \in {",", "."}
    \/ \E k \in 1..(Len(s) - 2) :
          s[k] = " " /\ s[k + 1] \in {"m", "re", "s", "d", "ve", "ll", "t"}
                     /\ s[k + 2] = " "

\* the tests on ( and ) of string_conditions (the other delimiters are
\* EXCLUSION_STRINGS)
DELIMITERS(s) ==
    LET Opens  == {k \in DOMAIN s : s[k] = "("}
        Closes == {k \in DOMAIN s : s[k] = ")"}
    IN  \/ Cardinality(Opens) # Cardinality(Closes)
        \/ (Opens # {} /\ Closes # {} /\ Min(Closes) < Min(Opens))
        \/ (Opens # {} /\ Closes # {} /\ Max(Opens) > Max(Closes))

\* any(re.search(regex, s) for regex in EXCLUSION_REGEXES)
EXCLUSION_REGEXES(s) ==
    LET W(u) == IsWord(u) \/ IsFloat(u)
    IN  \/ \E k \in 1..(Len(s) - 2) : W(s[k]) /\ IsPunct(s[k + 1]) /\ W(s[k + 2])
        \/ \E k \in 1..(Len(s) - 1) : IsPunct(s[k]) /\ IsPunct(s[k + 1])

\* string_conditions(s): "True", "False", or the exception it raises
string_conditions(s) ==
    IF Len(s) = 0 \/ (Len(s) = 1 /\ CharLen(s[1]) < MIN_SENTENCE_LENGTH_IN_CHARS)
    THEN "False"
    ELSE IF IsLowerInitial(s[1]) THEN "False"
    ELSE IF FirstWord(s) = <<>> THEN "IndexError"
    ELSE IF IsUpperStr(FirstWord(s)) THEN "False"
    ELSE IF WordCount(s) > MAX_SENTENCE_LENGTH_IN_WORDS THEN "False"
    ELSE IF EXCLUSION_STRINGS(s) THEN "False"
    ELSE IF s[Len(s)] \notin VALID_SENTENCE_ENDING_CHARS THEN "False"
    ELSE IF DELIMITERS(s) THEN "False"
    ELSE IF EXCLUSION_REGEXES(s) THEN "False"
    ELSE "True"

EN_STOP_STRINGS(s) == \E k \in DOMAIN s : IsFloat(s[k]) \/ s[k] \in {"-", ":", "(", ")"}

\* the abbreviations the lexicon of the model has, without their period
EN_ABBREVIATIONS == {"Mr"}

EN_EXCLUDE_REGEXES(s) ==
    \E k \in 1..(Len(s) - 1) :
        /\ s[k] \in {"re", "pre", "co", "dis", "un", "mis", "mal",
                      "Re", "Pre", "Co", "Dis", "Un", "Mis", "Mal"}
        /\ (k = 1 \/ s[k - 1] = " ")
        /\ s[k + 1] = " "

\* en_string_conditions(s): "True" stands for the return of s itself
en_string_conditions(s) ==
    IF string_conditions(s) # "True" THEN string_conditions(s)
    ELSE IF EN_STOP_STRINGS(s) THEN "False"
    ELSE IF \E k \in 1..(Len(s) - 1) : s[k] = "." THEN "False"
    ELSE IF s[Len(s) - 1] \in AllCaps THEN "False"
    ELSE IF /\ Len(s) >= 3
            /\ s[Len(s)] = "."
            /\ s[Len(s) - 1] \in EN_ABBREVIATIONS
            /\ s[Len(s) - 2] = " "
         THEN "False"
    ELSE IF EN_EXCLUDE_REGEXES(s) THEN "False"
    ELSE "True"

\* the subject that should agree with the verb at v, in no_dist_conditions;
\* NoIdx is the return of False after MAX_TRIES_TO_FIND_SUBJECT steps
RECURSIVE ClimbForSubject(_, _, _)
ClimbForSubject(d, x, tries) ==
    IF has_subject(d, x) THEN x
    ELSE IF tries + 1 > MAX_TRIES_TO_FIND_SUBJECT THEN NoIdx
    ELSE ClimbForSubject(d, head_of(d, x), tries + 1)

\* basic_conditions(s, conjoined): TRUE when the sentence is returned
basic_conditions(d, conjoined) ==
    LET usedTo(v) ==
            LET t == Token(d, v)
                h == head_of(d, v)
            IN  \/ /\ ~is_aux(t)
                   /\ t.text \in {"use", "used"}
                   /\ ChildrenWithDep(d, v, {"xcomp"}) # {}
                \/ /\ is_aux(t)
                   /\ Token(d, h).text \in {"use", "used"}
                   /\ ChildrenWithDep(d, h, {"xcomp"}) # {}
        Arguments(vs, su, o) ==
            /\ \A i \in su \cup o :
                  /\ Token(d, i).pos \in NOUN_POS_TAGS
                  /\ Decapitalize(Token(d, i).text) # "the"
                  /\ ~IsFloat(Token(d, i).text)
            /\ \A i \in su :
                  /\ Token(d, i).tag \notin SUBJ_EXCL_TAGS
                  /\ ~(/\ i # 0
                       /\ Token(d, i).text \in POSTNOMINAL_ADJS
                       /\ Token(d, i - 1).pos \in NOUN_POS_TAGS
                       /\ Token(d, i - 1).text \notin POSTNOMINAL_ADJS)
            /\ \A v \in vs : can_be_inflected(Token(d, v))
            /\ \A v \in vs : ~usedTo(v)
            /\ ~\E i \in Positions(d) :
                  Token(d, i).dep \in OBJ_DEPS /\ Token(d, i).text \in BAD_OBJECTS
        MainClause(vs) ==
            /\ vs # {}
            /\ (Cardinality(vs) > 1 => conjoined)
            /\ \A v \in vs :
                  /\ ~IsUpperInitial(Token(d, v).text)
                  /\ Token(d, v).text \notin COMMON_VERB_TYPOS
                  /\ Token(d, v).text \notin MISPARSED_AS_VERBS
                  /\ Token(d, v).lemma \notin BAD_VERB_LEMMAS
            /\ has_main_subject(d)
            /\ Arguments(vs, UNION {subject(d, v) : v \in vs},
                         UNION {object(d, v) : v \in vs})
    IN  /\ en_string_conditions(Units(d)) = "True"
        /\ \A i \in Positions(d) : Token(d, i).dep \notin BAD_DEPS
        /\ root_is_verb(d)
        /\ \A i \in Positions(d) : Token(d, i).pos # "X" /\ Token(d, i).tag # "FW"
        /\ can_be_inflected(Token(d, main_verb(d)))
        /\ get_morph(Token(d, main_verb(d)), "VerbForm") # "Inf"
        /\ MainClause(main_clause_verbs(d))

\* the agreement test of no_dist_conditions for the verb at v
AgreesWithSubject(d, v) ==
    LET t == Token(d, v)
        Agree(s_n, v_n) == ~(s_n # None /\ v_n # None /\ s_n # v_n)
        Numbers(subj) ==
            Agree(IF Cardinality(subj) > 1
                  THEN _get_list_noun_number(d, subj, SUBJ_DEPS)
                  ELSE get_morph(Token(d, Min(subj)), "Number"),
                  get_morph(t, "Number"))
        From(subj0, from) ==
            /\ from # NoIdx
            /\ Numbers(IF subj0 # {} THEN subj0 ELSE subject(d, from))
        Own(subj0) ==
            From(subj0, IF subj0 = {} THEN ClimbForSubject(d, v, 0) ELSE v)
        Kids(own) ==
            Own(IF \A c \in own : Token(d, c).dep = "attr" THEN {} ELSE own)
    IN  /\ get_morph(t, "VerbForm") # "Inf"
        /\ t.tag # "VBG"
        /\ Kids(ChildrenWithDep(d, v, SUBJ_DEPS))

\* no_dist_conditions(s, conjoined): TRUE when the sentence is returned
no_dist_conditions(d, conjoined) ==
    /\ basic_conditions(d, conjoined)
    /\ ~has_main_subject_verb_distractors(d)
    /\ \A v \in main_clause_verbs(d) : AgreesWithSubject(d, v)

\* EDoc.main_subject_verb_intervener_structures: one label per intervener
main_subject_verb_intervener_structures(d) ==
    LET Joined(kept) == [k \in DOMAIN kept |-> Join(FromKeys(kept[k]))]
        Of(ds) ==
            Joined(SelectSeq([k \in DOMAIN ds |-> StructureLabels(d, ds[k])],
                             LAMBDA q : q # <<>>))
    IN  Of(SortedSeq(main_subject_verb_interveners(d)))

\* has_interveners_and_number_agreement_conditions(s): TRUE when the
\* sentence is returned
has_interveners_and_number_agreement_conditions(d) ==
    LET Structures(n, structures) == structures # <<>> /\ n = Len(structures)
    IN  /\ basic_conditions(d, TRUE)
        /\ ~(/\ get_morph(Token(d, main_verb(d)), "Tense") = "Past"
             /\ Token(d, main_verb(d)).lemma # "be")
        /\ has_main_subject_verb_interveners(d)
        /\ Structures(Cardinality(main_subject_verb_interveners(d)),
                      main_subject_verb_intervener_structures(d))

\* question_conditions(s, conjoined): TRUE when the sentence is returned
question_conditions(d, conjoined) ==
    /\ no_dist_conditions(d, conjoined)
    /\ can_form_polar_question(d)
    /\ \A v \in main_clause_verbs(d) :
          /\ ~is_aux(Token(d, v))
          /\ ~is_negative(d, v)
          /\ Token(d, v).lemma # "be"
    /\ ~\E c \in children(d, main_verb(d)) : c < Min(main_subject(d))

-----------------------------------------------------------------------------
(* State: src is the sentence the last operation was called on, as it is   *)
(* after the call; cur is the sentence the caller now holds (the result of *)
(* a successful call); last describes the call; steps counts edits.  filt  *)
(* is the filter call in progress and mk the dataset being made.           *)

\* bounds of the editing specification
MaxLen == 3

MaxEdits == 2

NoCall ==
    [op |-> "init", ok |-> TRUE, err |-> None, before |-> <<>>,
     index |-> NoIdx, head |-> NoIdx, indices |-> <<>>, moves |-> <<>>,
     number |-> None, tense |-> None]

\* no filter call, no dataset
NoFilter ==
    [fn |-> None, pc |-> "idle", raw |-> <<>>, doc |-> <<>>, str |-> None,
     alarm |-> "off", fired |-> FALSE, parses |-> 0, nlp |-> None, ret |-> None]

NoMaker == [pc |-> "idle"]

\* a constructor that writes the new Doc into the object it was called on
NewEDocInPlace(self, d) == [self |-> d, result |-> d]

\* EDoc.__init__(Doc, previous=self): the result is a new object and the
\* object the method was called on is left as it is
NewEDoc(self, d) == [self |-> self, result |-> d]

\* the state after a call on cur with outcome r
Outcome(call, r) ==
    IF r.ok
    THEN LET e == NewEDoc(cur, IF r.same THEN cur ELSE r.doc)
         IN  /\ src' = e.self
             /\ cur' = e.result
             /\ last' = [call EXCEPT !.ok = TRUE, !.before = cur]
    ELSE /\ src' = cur
         /\ cur' = cur
         /\ last' = [call EXCEPT !.ok = FALSE, !.err = r.err, !.before = cur]

-----------------------------------------------------------------------------
(* The editing specification: random well-formed trees, random edits       *)

Names == <<"Alpha", "beta", "gamma", "delta", "epsilon">>

Fresh == <<"nu", "omega", "pi", "rho">>

PlainToken(text, dep, head, first, ws) ==
    [text |-> text, ws |-> ws, tag |-> "NN", pos |-> "NOUN", morph |-> NoMorph,
     lemma |-> Decapitalize(text), dep |-> dep, head |-> head,
     sent_start |-> first]

TreeDoc(h) ==
    [k \in DOMAIN h |->
        PlainToken(Names[k], IF h[k] = k - 1 THEN "ROOT" ELSE "dep", h[k],
                   k = 1, k < Len(h))]

Trees(n) == {TreeDoc(h) : h \in {g \in [1..n -> 0..(n - 1)] :
                                   LET d == [k \in 1..n |-> [head |-> g[k]]]
                                   IN  WellFormed(d)}}

EditCorpus == UNION {Trees(n) : n \in 2..MaxLen}

InitEdit ==
    /\ cur \in EditCorpus
    /\ src = cur
    /\ last = NoCall
    /\ steps = 0
    /\ filt = NoFilter
    /\ mk = NoMaker

\* the positions of d below position i (i included)
Descendants(d, i) ==
    {j \in 0..(Len(d) - 1) : \E n \in 0..Len(d) : Ancestor(d, j, n) = i}

\* Insert: a new non-root token whose head is a position of the new sentence
Insert ==
    /\ steps < MaxEdits
    /\ \E index \in 0..(Len(cur) - 1), h \in 0..Len(cur) :
          /\ h # index
          /\ LET token == PlainToken(Fresh[steps + 1], "dep", h, FALSE, TRUE)
                             @@ [i |-> index, head_i |-> h]
             IN  Outcome([NoCall EXCEPT !.op = "_copy_with_add", !.index = index,
                                        !.head = h],
                         copy_with_add(EDoc(cur), token, index))
    /\ steps' = steps + 1
    /\ UNCHANGED <<filt, mk>>

\* Remove: one or two positions other than the root, with a substitute that
\* survives and is not below a removed token
Remove ==
    /\ steps < MaxEdits
    /\ \E indices \in {<<i>> : i \in 0..(Len(cur) - 1)}
                      \cup {<<i, j>> : i, j \in 0..(Len(cur) - 1)},
          m \in 0..(Len(cur) - 1), is_list \in BOOLEAN :
          /\ Len(indices) = 2 => indices[1] # indices[2]
          /\ Range(indices) \cap Roots(cur) = {}
          /\ \A i \in Range(indices) : m \notin Descendants(cur, i)
          /\ is_list => Len(indices) = 2
          /\ Outcome([NoCall EXCEPT !.op = "_copy_with_remove", !.indices = indices,
                                     !.moves = IF is_list THEN <<m, m>> ELSE <<m>>],
                      copy_with_remove(EDoc(cur), indices,
                                       IF is_list THEN <<m, m>> ELSE <<m>>, is_list))
    /\ steps' = steps + 1
    /\ UNCHANGED <<filt, mk>>

\* Replace: the token at a position is replaced by an edited copy of itself
Replace ==
    /\ steps < MaxEdits
    /\ \E i \in 0..(Len(cur) - 1), override \in BOOLEAN :
          LET t0 == Token(EDoc(cur), i)
              t  == [t0 EXCEPT !.text = Capitalize(t0.text), !.tag = "NNS",
                               !.head_i = IF override THEN HeadIdx(t0) ELSE NoIdx]
          IN  Outcome([NoCall EXCEPT !.op = "copy_with_replace", !.index = i],
                      copy_with_replace(EDoc(cur), <<t>>, <<i>>))
    /\ steps' = steps + 1
    /\ UNCHANGED <<filt, mk>>

NextEdit == Insert \/ Remove \/ Replace

SpecEdit == InitEdit /\ [][NextEdit]_vars

-----------------------------------------------------------------------------
(* The sentence specification: parsed English sentences of a small grammar *)
(* and the tense and question operations on them.  A sentence is a         *)
(* subject noun phrase, an optional modifier of the subject (prepositional *)
(* phrase or relative clause), a predicate and an optional conjoined       *)
(* predicate, with the tags, features and dependencies the parser gives.   *)

Feat(number, tense, verbform, person) ==
    [NoMorph EXCEPT !.Number = number, !.Tense = tense, !.VerbForm = verbform,
                    !.Person = person]

\* a parsed word; id names it and hd names its head within the sentence
Word(text, tag, pos, morph, lemma, dep, id, hd) ==
    [text |-> text, tag |-> tag, pos |-> pos, morph |-> morph, lemma |-> lemma,
     dep |-> dep, id |-> id, hd |-> hd]

Det(id, hd) ==
    Word("the", "DT", "DET", [NoMorph EXCEPT !.Definite = "Def"], "the", "det", id, hd)

Noun(sg, pl, number, dep, id, hd) ==
    IF number = "Sing"
    THEN Word(sg, "NN", "NOUN", Feat("Sing", None, None, None), sg, dep, id, hd)
    ELSE Word(pl, "NNS", "NOUN", Feat("Plur", None, None, None), sg, dep, id, hd)

\* a finite verb as the parser tags it: the third person singular present
\* carries Number and Person, the other finite forms carry neither
Finite(lemma, sg3, base, past, number, tense, pos, dep, id, hd) ==
    IF tense = "Past"
    THEN Word(past, "VBD", pos, Feat(None, "Past", "Fin", None), lemma, dep, id, hd)
    ELSE IF number = "Sing"
    THEN Word(sg3, "VBZ", pos, Feat("Sing", "Pres", "Fin", "3"), lemma, dep, id, hd)
    ELSE Word(base, "VBP", pos, Feat(None, "Pres", "Fin", None), lemma, dep, id, hd)

\* a form of 'be'; was also carries Number and Person
Be(number, tense, dep, id, hd) ==
    IF tense = "Past"
    THEN (IF number = "Sing"
          THEN Word("was", "VBD", "AUX", Feat("Sing", "Past", "Fin", "3"), "be",
                    dep, id, hd)
          ELSE Word("were", "VBD", "AUX", Feat(None, "Past", "Fin", None), "be",
                    dep, id, hd))
    ELSE Finite("be", "is", "are", "was", number, tense, "AUX", dep, id, hd)

Modal(text, id, hd) ==
    Word(text, "MD", "AUX", Feat(None, None, "Fin", None), text, "aux", id, hd)

Bare(text, dep, id, hd) ==
    Word(text, "VB", "VERB", Feat(None, None, "Inf", None), text, dep, id, hd)

Adj(text, dep, id, hd) == Word(text, "JJ", "ADJ", NoMorph, text, dep, id, hd)

Punct(text) == Word(text, ".", "PUNCT", NoMorph, text, "punct", "punct", "pred")

Numbers == {"Sing", "Plur"}

\* the subject noun phrase; its head noun is the nsubj of the predicate
SubjectNP(noun, number) ==
    <<Det("s_det", "subj"),
      Noun(noun, noun \o "s", number, "nsubj", "subj", "pred")>>

\* modifiers of the subject: none, "to the door(s)", "that the man/men own(s)"
\* and the relative clauses without a relative pronoun "men own", "Tom owns"
Modifiers ==
    {<<>>}
    \cup {<<Word("to", "IN", "ADP", NoMorph, "to", "prep", "m_prep", "subj"),
            Det("m_det", "m_noun"),
            Noun("door", "doors", n, "pobj", "m_noun", "m_prep")>> : n \in Numbers}
    \cup {<<Word("that", "WDT", "PRON", NoMorph, "that", "dobj", "m_rel", "m_verb"),
            Det("m_det", "m_noun"),
            Noun("man", "men", n, "nsubj", "m_noun", "m_verb"),
            Finite("own", "owns", "own", "owned", n, "Pres", "VERB", "relcl",
                   "m_verb", "subj")>> : n \in Numbers}
    \cup {<<Noun("man", "men", "Plur", "nsubj", "m_noun", "m_verb"),
            Finite("own", "owns", "own", "owned", "Plur", "Pres", "VERB", "relcl",
                   "m_verb", "subj")>>,
          <<Word("Tom", "NNP", "PROPN", Feat("Sing", None, None, None), "Tom",
                 "nsubj", "m_noun", "m_verb"),
            Finite("own", "owns", "own", "owned", "Sing", "Pres", "VERB", "relcl",
                   "m_verb", "subj")>>}

\* "to the staff": a noun to which the parser gives no Number feature
NumberlessModifier ==
    <<Word("to", "IN", "ADP", NoMorph, "to", "prep", "m_prep", "subj"),
      Det("m_det", "m_noun"),
      Word("staff", "NN", "NOUN", NoMorph, "staff", "pobj", "m_noun", "m_prep")>>

\* "to doors that lead to rooms": a preposition phrase within a relative
\* clause within a preposition phrase
NestedModifier ==
    <<Word("to", "IN", "ADP", NoMorph, "to", "prep", "m_prep", "subj"),
      Noun("door", "doors", "Plur", "pobj", "m_noun", "m_prep"),
      Word("that", "WDT", "PRON", NoMorph, "that", "nsubj", "m_rel", "m_verb"),
      Finite("lead", "leads", "lead", "led", "Plur", "Pres", "VERB", "relcl",
             "m_verb", "m_noun"),
      Word("to", "IN", "ADP", NoMorph, "to", "prep", "n_prep", "m_verb"),
      Noun("room", "rooms", "Plur", "pobj", "n_noun", "n_prep")>>

\* "to half of the doors": the partitive 'half' with its preposition 'of'
PartitiveModifier ==
    <<Word("to", "IN", "ADP", NoMorph, "to", "prep", "m_prep", "subj"),
      Word("half", "NN", "NOUN", Feat("Sing", None, None, None), "half", "pobj",
           "m_part", "m_prep"),
      Word("of", "IN", "ADP", NoMorph, "of", "prep", "m_of", "m_part"),
      Det("m_det", "m_noun"),
      Noun("door", "doors", "Plur", "pobj", "m_noun", "m_of")>>

Tenses == {"Pres", "Past"}

PastVerb(text, lemma) ==
    Word(text, "VBD", "VERB", Feat(None, "Past", "Fin", None), lemma, "ROOT",
         "pred", "pred")

TheBone == <<Det("o_det", "obj"), Noun("bone", "bones", "Sing", "dobj", "obj", "pred")>>

\* predicates whose finite verb agrees with number n; the root is "pred"
Predicates(n) ==
    {<<Finite("bark", "barks", "bark", "barked", n, t, "VERB", "ROOT", "pred", "pred")>>
        : t \in Tenses}
    \cup {<<Finite("sing", "sings", "sing", "sang", n, t, "VERB", "ROOT", "pred", "pred")>>
        : t \in Tenses}
    \cup {<<Be(n, t, "aux", "aux", "pred"),
            Word("barking", "VBG", "VERB", Feat(None, "Pres", "Part", None), "bark",
                 "ROOT", "pred", "pred")>> : t \in Tenses}
    \cup {<<Be(n, t, "ROOT", "pred", "pred"), Adj("happy", "acomp", "comp", "pred")>>
        : t \in Tenses}
    \cup {<<Be(n, "Pres", "ROOT", "pred", "pred"),
            Word("n't", "RB", "PART", NoMorph, "not", "neg", "neg", "pred"),
            Adj("happy", "acomp", "comp", "pred")>>,
          <<PastVerb("used", "use"),
            Word("to", "TO", "PART", NoMorph, "to", "aux", "to", "inf"),
            Bare("bark", "xcomp", "inf", "pred")>>,
          <<PastVerb("lay", "lie"),
            Word("there", "RB", "ADV", NoMorph, "there", "advmod", "adv", "pred")>>,
          <<PastVerb("lay", "lay")>> \o TheBone,
          <<PastVerb("laid", "lay")>> \o TheBone,
          <<Modal("can", "aux", "pred"), Bare("bark", "ROOT", "pred", "pred")>>}

And == Word("and", "CC", "CCONJ", NoMorph, "and", "cc", "c_cc", "pred")

\* the subject of a conjoined clause, "the cat(s)"
ConjunctNP(n) ==
    <<Det("c_det", "c_subj"), Noun("cat", "cats", n, "nsubj", "c_subj", "c_verb")>>

\* predicates conjoined to the root, sharing its subject, and clauses
\* conjoined to the root that have a subject of their own
Conjuncts(n) ==
    {<<>>,
     <<And, Be(n, "Pres", "conj", "c_verb", "pred"), Adj("old", "acomp", "c_comp", "c_verb")>>,
     <<And, Modal("would", "c_aux", "c_verb"), Bare("go", "conj", "c_verb", "pred")>>,
     <<And, Finite("sing", "sings", "sing", "sang", n, "Pres", "VERB", "conj",
                   "c_verb", "pred")>>,
     <<And>> \o ConjunctNP(n)
         \o <<Be(n, "Pres", "conj", "c_verb", "pred"),
              Adj("old", "acomp", "c_comp", "c_verb")>>,
     <<And>> \o ConjunctNP(n)
         \o <<Finite("sing", "sings", "sing", "sang", n, "Pres", "VERB", "conj",
                     "c_verb", "pred")>>}

\* the Doc of a sequence of words: heads are positions, the first word is
\* capitalised, a space follows every word but the one before n't or the
\* final punctuation
Parse(words) ==
    [k \in DOMAIN words |->
        [text |-> IF k = 1 THEN Capitalize(words[k].text) ELSE words[k].text,
         ws |-> k < Len(words) /\ words[k + 1].text \notin {".", "n't"},
         tag |-> words[k].tag, pos |-> words[k].pos, morph |-> words[k].morph,
         lemma |-> words[k].lemma, dep |-> words[k].dep,
         head |-> (CHOOSE j \in DOMAIN words : words[j].id = words[k].hd) - 1,
         sent_start |-> (k = 1)]]

Sentence(noun, n, m, p, c) ==
    Parse(SubjectNP(noun, n) \o m \o p \o c \o <<Punct(".")>>)

\* the predicates that are combined with a modifier or a conjunct
PlainPredicates(n) ==
    {p \in Predicates(n) : p[1].text \in {"barks", "bark", "barked", "is", "are",
                                           "can", "lay"}
                           /\ p[Len(p)].text # "bone"}

\* the corpus: plain sentences whose verb agrees with the subject or not,
\* and agreeing sentences with a modifier of the subject or a conjunct
Corpus ==
    {Sentence("dog", n, <<>>, p, <<>>) :
        n \in Numbers, p \in UNION {Predicates(vn) : vn \in Numbers}}
    \cup UNION {{Sentence("key", n, m, p, <<>>) :
                    m \in (Modifiers \ {<<>>})
                             \cup {NumberlessModifier, NestedModifier,
                                   PartitiveModifier},
                    p \in PlainPredicates(n)} : n \in Numbers}
    \cup UNION {{Sentence("dog", n, <<>>, p, c) :
                    p \in PlainPredicates(n), c \in Conjuncts(n)} : n \in Numbers}

Init ==
    /\ cur \in Corpus
    /\ src = cur
    /\ last = NoCall
    /\ steps = 0
    /\ filt = NoFilter
    /\ mk = NoMaker

\* the spellings of number and tense the callers pass
NumberArgs == {"Sing", "Plur", "singular"}

TenseArgs == {"Past", "Pres", "present"}

\* EDoc.reinflect_main_verb(number, tense)
ReinflectMainVerb ==
    /\ \E number \in NumberArgs, tense \in TenseArgs :
          Outcome([NoCall EXCEPT !.op = "reinflect_main_verb", !.number = number,
                                 !.tense = tense],
                  reinflect_main_verb(EDoc(cur), number, tense))
    /\ UNCHANGED <<steps, filt, mk>>

\* EDoc.make_main_verb_past_tense()
MakePast ==
    /\ Outcome([NoCall EXCEPT !.op = "make_main_verb_past_tense"],
               make_main_verb_past_tense(EDoc(cur)))
    /\ UNCHANGED <<steps, filt, mk>>

\* EDoc.make_main_verb_present_tense()
MakePresent ==
    /\ Outcome([NoCall EXCEPT !.op = "make_main_verb_present_tense"],
               make_main_verb_present_tense(EDoc(cur)))
    /\ UNCHANGED <<steps, filt, mk>>

\* EDoc.make_sentence_polar_question()
MakeQuestion ==
    /\ Outcome([NoCall EXCEPT !.op = "make_sentence_polar_question"],
               make_sentence_polar_question(EDoc(cur)))
    /\ UNCHANGED <<steps, filt, mk>>

\* EDoc.renumber_main_subject(number)
RenumberMainSubject ==
    /\ \E number \in NumberArgs :
          Outcome([NoCall EXCEPT !.op = "renumber_main_subject", !.number = number],
                  renumber_main_subject(EDoc(cur), number))
    /\ UNCHANGED <<steps, filt, mk>>

\* EDoc.renumber_main_subject_verb_distractors(number)
RenumberDistractors ==
    /\ \E number \in NumberArgs :
          Outcome([NoCall EXCEPT !.op = "renumber_main_subject_verb_distractors",
                                 !.number = number],
                  renumber_main_subject_verb_distractors(EDoc(cur), number))
    /\ UNCHANGED <<steps, filt, mk>>

\* no_dist_conditions(s) on the text of a sentence of the corpus: the
\* sentence is returned (ok) or False is
NoDistConditions ==
    /\ last.op = "init"
    /\ Outcome([NoCall EXCEPT !.op = "no_dist_conditions"],
               IF no_dist_conditions(EDoc(cur), TRUE) THEN Ok(cur) ELSE Err("False"))
    /\ UNCHANGED <<steps, filt, mk>>

Next ==
    \/ ReinflectMainVerb
    \/ MakePast
    \/ MakePresent
    \/ MakeQuestion
    \/ NoDistConditions

Spec == Init /\ [][Next]_vars

\* the renumbering specification: every operation, on the sentences with a
\* present-tense predicate that agrees with the subject
\* "and the door(s)": a second conjunct of the subject
ConjoinedSubject(n) ==
    <<Word("and", "CC", "CCONJ", NoMorph, "and", "cc", "s_cc", "subj"),
      Det("s_det2", "s_conj"),
      Noun("door", "doors", n, "conj", "s_conj", "subj")>>

NumberCorpus ==
    UNION {{Sentence("key", n, m, p, <<>>) :
               m \in Modifiers,
               p \in {q \in Predicates(n) : q[1].text \in {"barks", "bark", "is", "are"}
                                             /\ q[Len(q)].text \in {"barks", "bark", "happy"}
                                             /\ Len(q) <= 2}}
           : n \in Numbers}
    \cup {Sentence("key", "Sing", ConjoinedSubject(n), p, <<>>) :
             n \in Numbers,
             p \in {q \in Predicates("Plur") : q[1].text \in {"bark", "are"}
                                                /\ q[Len(q)].text \in {"bark", "happy"}
                                                /\ Len(q) <= 2}}

InitNumber ==
    /\ cur \in NumberCorpus
    /\ src = cur
    /\ last = NoCall
    /\ steps = 0
    /\ filt = NoFilter
    /\ mk = NoMaker

NextNumber ==
    \/ ReinflectMainVerb
    \/ MakePast
    \/ MakePresent
    \/ MakeQuestion
    \/ NoDistConditions
    \/ RenumberMainSubject
    \/ RenumberDistractors

SpecNumber == InitNumber /\ [][NextNumber]_vars

-----------------------------------------------------------------------------
(* The filter specification: one call of a filter on a raw string.  The    *)
(* call runs the string phase, then nlp(s) inside the timeout context      *)
(* (timeout.py), then the tests on the parse.  SIGALRM is delivered        *)
(* between any two steps while the alarm is armed.                         *)

StringFilters == {"string_conditions", "en_string_conditions"}

ParsingFilters ==
    {"basic_conditions", "no_dist_conditions", "question_conditions",
     "has_interveners_and_number_agreement_conditions"}

\* a sentence fragment: the root is a noun
TheDogFragment ==
    Parse(<<Det("s_det", "subj"),
            Noun("dog", "dogs", "Sing", "ROOT", "subj", "subj"),
            Word(".", ".", "PUNCT", NoMorph, ".", "punct", "punct", "subj")>>)

\* a sentence after a leading space, which the parser makes a token
LeadingSpace(n) ==
    [Parse(<<Word(" ", "_SP", "SPACE", NoMorph, " ", "dep", "space", "s_det")>>
           \o SubjectNP("dog", n)
           \o <<Finite("bark", "barks", "bark", "barked", n, "Pres", "VERB", "ROOT",
                       "pred", "pred"),
                Punct(".")>>)
        EXCEPT ![1].ws = FALSE]

FilterCorpus ==
    Corpus \cup {TheDogFragment} \cup {LeadingSpace(n) : n \in Numbers}

\* strings that are given to the filters and never parsed
RawStrings ==
    {<<>>, <<" ">>, <<" ", " ">>, <<"A">>,
     <<"3", " ", "dogs", " ", "bark", ".">>,
     <<"the", " ", "dog", " ", "barks", ".">>,
     <<"A", " ", "dog", " ", "barks", ".">>,
     <<"The", " ", "dog", " ", "barks">>,
     <<"The", " ", "dog", " ", "(", "barks", ".">>,
     <<"The", " ", "dog", " ", ".", "barks", ".">>,
     <<"The", " ", "dog", ",", ",", " ", "barks", ".">>,
     <<"The", " ", "dog", " ", "barks", " ", "Mr", ".">>,
     <<"The", " ", "dog", " ", "barks", " ", "NASA", ".">>,
     <<"Re", " ", "dogs", " ", "bark", ".">>,
     <<"$", " ", "dogs", " ", "bark", ".">>}

FilterInputs ==
    {[raw |-> Units(d), doc |-> d] : d \in FilterCorpus}
    \cup {[raw |-> s, doc |-> <<>>] : s \in RawStrings}

InitFilter ==
    /\ src = <<>>
    /\ cur = <<>>
    /\ last = NoCall
    /\ steps = 0
    /\ mk = NoMaker
    /\ filt \in {[NoFilter EXCEPT !.fn = fn, !.pc = "call", !.raw = inp.raw,
                                   !.doc = inp.doc] :
                     fn \in StringFilters \cup ParsingFilters, inp \in FilterInputs}

\* a filter that parses whatever the string phase said
AlwaysAccepted(r) == TRUE

\* if not s: return False  (the parser is called for an accepted string only)
Accepted(r) == r = "True"

\* the string phase: string_conditions(s) or en_string_conditions(s); an
\* exception it raises leaves the filter
StringPhase ==
    /\ filt.pc = "call"
    /\ LET r == IF filt.fn = "string_conditions" THEN string_conditions(filt.raw)
                ELSE en_string_conditions(filt.raw)
       IN  filt' = [filt EXCEPT
                       !.str = r,
                       !.pc = IF filt.fn \in ParsingFilters /\ Accepted(r)
                              THEN "enter" ELSE "return",
                       !.ret = IF r # "True" THEN r
                               ELSE IF filt.fn = "string_conditions" THEN "True"
                               ELSE IF filt.fn = "en_string_conditions" THEN "str"
                               ELSE None]
    /\ UNCHANGED <<src, cur, last, steps, mk>>

\* timeout.__enter__: signal.alarm(self.seconds)
NlpEnter ==
    /\ filt.pc = "enter"
    /\ filt' = [filt EXCEPT !.alarm = "armed", !.pc = "armed"]
    /\ UNCHANGED <<src, cur, last, steps, mk>>

\* the try block of nlp is entered and nlp_(s) is called
NlpTry ==
    /\ filt.pc = "armed"
    /\ filt' = [filt EXCEPT !.pc = "try", !.parses = @ + 1]
    /\ UNCHANGED <<src, cur, last, steps, mk>>

\* EDoc(nlp_(s)) has been computed; the return leaves the try block
ParseReturns ==
    /\ filt.pc = "try"
    /\ filt.doc # <<>>
    /\ filt' = [filt EXCEPT !.pc = "leave"]
    /\ UNCHANGED <<src, cur, last, steps, mk>>

\* nlp_(s) or EDoc(...) raises an Exception, which the except clause catches
ParseRaises ==
    /\ filt.pc = "try"
    /\ filt' = [filt EXCEPT !.pc = "except"]
    /\ UNCHANGED <<src, cur, last, steps, mk>>

\* raise ParseError(...) in the except clause; timeout.__exit__ disarms
RaiseParseError ==
    /\ filt.pc = "except"
    /\ filt' = [filt EXCEPT !.nlp = "ParseError", !.alarm = "off", !.pc = "checks"]
    /\ UNCHANGED <<src, cur, last, steps, mk>>

\* timeout.__exit__: signal.alarm(0), and nlp returns the EDoc
NlpExit ==
    /\ filt.pc = "leave"
    /\ filt' = [filt EXCEPT !.nlp = "EDoc", !.alarm = "off", !.pc = "checks"]
    /\ src' = filt.doc
    /\ cur' = filt.doc
    /\ UNCHANGED <<last, steps, mk>>

\* SIGALRM: handle_timeout raises TimeoutError where the program is.  Inside
\* the try block the except clause catches it; anywhere else in the with
\* block it leaves nlp through timeout.__exit__
AlarmFires ==
    /\ filt.alarm = "armed"
    /\ filt' = IF filt.pc = "try"
               THEN [filt EXCEPT !.alarm = "off", !.fired = TRUE, !.pc = "except"]
               ELSE [filt EXCEPT !.alarm = "off", !.fired = TRUE,
                                 !.nlp = "TimeoutError", !.pc = "checks"]
    /\ UNCHANGED <<src, cur, last, steps, mk>>

\* the tests on the parse of the filter fn
FilterChecks(fn, d) ==
    IF fn = "basic_conditions" THEN basic_conditions(d, TRUE)
    ELSE IF fn = "no_dist_conditions" THEN no_dist_conditions(d, TRUE)
    ELSE IF fn = "question_conditions" THEN question_conditions(d, TRUE)
    ELSE has_interveners_and_number_agreement_conditions(d)

\* the rest of the filter: an exception of nlp is caught by the try block of
\* basic_conditions (return False), an EDoc is tested
Checks ==
    /\ filt.pc = "checks"
    /\ filt' = [filt EXCEPT
                    !.pc = "return",
                    !.ret = IF filt.nlp # "EDoc" THEN "False"
                            ELSE IF FilterChecks(filt.fn, EDoc(cur)) THEN "EDoc"
                            ELSE "False"]
    /\ UNCHANGED <<src, cur, last, steps, mk>>

NextFilter ==
    \/ StringPhase
    \/ NlpEnter
    \/ NlpTry
    \/ ParseReturns
    \/ ParseRaises
    \/ RaiseParseError
    \/ NlpExit
    \/ AlarmFires
    \/ Checks

SpecFilter == InitFilter /\ [][NextFilter]_vars

-----------------------------------------------------------------------------
(* The dataset specification: create_seq2seq_dataset fills the n slots of  *)
(* one split.  The candidates are parsed sentences (conditions_fun is      *)
(* nlp), the split function is question_pair or past_pair, and             *)
(* metadata_fun is an argument: it returns a value made of the pair or     *)
(* raises.                                                                 *)

\* the sentence a method returned when it was called on doc
Returned(r, doc) == IF r.same THEN doc ELSE r.doc

\* the value of a split function: a dict, or the exception raised
Pair(src_, prefix, tgt) ==
    [ok |-> TRUE, src |-> src_, prefix |-> prefix, tgt |-> tgt]

\* question_pair(s)
question_pair(s) ==
    LET Tgt(past, pres, ques) ==
            IF ~ques.ok THEN Err(ques.err)
            ELSE Pair(Returned(past, s), "ques_pres", Returned(ques, pres))
        Src(past, pres) ==
            IF ~past.ok THEN Err(past.err)
            ELSE IF ~pres.ok THEN Err(pres.err)
            ELSE Tgt(past, Returned(pres, s),
                     make_sentence_polar_question(EDoc(Returned(pres, s))))
    IN  Src(make_main_verb_past_tense(EDoc(s)),
            make_main_verb_present_tense(EDoc(s)))

\* past_pair(s)
past_pair(s) ==
    LET Of(past) == IF ~past.ok THEN Err(past.err)
                    ELSE Pair(Returned(past, s), "past", Returned(past, s))
    IN  Of(make_main_verb_past_tense(EDoc(s)))

\* splits_funs[split](ex)
splits_funs(split, ex) ==
    IF split = "question_pair" THEN question_pair(ex) ELSE past_pair(ex)

\* {'translation': {k: str(v) for k, v in pair.items()}}
Translation(pair) ==
    [src |-> Render(pair.src), prefix |-> pair.prefix, tgt |-> Render(pair.tgt)]

\* the largest split and the largest number of candidates drawn for it
MaxSlots == 2

MaxDraws == 3

\* None in a slot of new_dataset or new_metadata: [None for _ in range(n)]
NoSlot == [filled |-> FALSE, draw |-> 0, value |-> None]

Slot(draw, value) == [filled |-> TRUE, draw |-> draw, value |-> value]

\* the sentences of the corpus without modifier, and a fragment
MakerCorpus == {s \in NumberCorpus : Len(s) <= 5} \cup {TheDogFragment}

\* the state at the first pass of the loop over range(n)
Maker(split, n) ==
    [pc |-> "draw", split |-> split, n |-> n, i |-> 0, ex |-> <<>>, draws |-> 0,
     pair |-> None, metadata |-> None,
     new_dataset |-> [j \in 0..(n - 1) |-> NoSlot],
     new_metadata |-> [j \in 0..(n - 1) |-> NoSlot]]

InitMaker ==
    /\ mk \in {Maker(split, n) : split \in {"question_pair", "past_pair"},
                                  n \in 1..MaxSlots}
    /\ src = <<>>
    /\ cur = <<>>
    /\ last = NoCall
    /\ steps = 0
    /\ filt = NoFilter

\* ex = get_random_sentence(...): a sentence the conditions accept
GetRandomSentence ==
    /\ mk.pc = "draw"
    /\ mk.draws < MaxDraws
    /\ \E ex \in MakerCorpus :
          mk' = [mk EXCEPT !.pc = "pair", !.ex = ex, !.draws = @ + 1]
    /\ UNCHANGED <<src, cur, last, steps, filt>>

\* except Exception: ex = '' (the while loop draws again for slot i)
Discarded(m) == [m EXCEPT !.pc = "draw", !.ex = <<>>]

\* new_dataset[i] is written as soon as the pair is there
PairedAndWritten(m, pair) ==
    [m EXCEPT !.pc = "metadata", !.pair = pair @@ [draw |-> m.draws],
              !.new_dataset[m.i] = Slot(m.draws, Translation(pair))]

\* pair = ... has succeeded: nothing but the local variable is written
Paired(m, pair) ==
    [m EXCEPT !.pc = "metadata", !.pair = pair @@ [draw |-> m.draws]]

\* pair = splits_funs[split](ex, ...)
SplitFun ==
    /\ mk.pc = "pair"
    /\ LET Tried(pair) == IF pair.ok THEN Paired(mk, pair) ELSE Discarded(mk)
       IN  mk' = Tried(splits_funs(mk.split, mk.ex))
    /\ UNCHANGED <<src, cur, last, steps, filt>>

\* metadata = metadata_fun(pair, ...)
MetadataFun ==
    /\ mk.pc = "metadata"
    /\ \E raises \in BOOLEAN :
          mk' = IF raises THEN Discarded(mk)
                ELSE [mk EXCEPT !.pc = "write_dataset",
                                !.metadata = [of |-> mk.pair]]
    /\ UNCHANGED <<src, cur, last, steps, filt>>

\* new_dataset[i] = {'translation': ...}
WriteDataset ==
    /\ mk.pc = "write_dataset"
    /\ mk' = [mk EXCEPT !.pc = "write_metadata",
                        !.new_dataset[mk.i] = Slot(mk.pair.draw, Translation(mk.pair))]
    /\ UNCHANGED <<src, cur, last, steps, filt>>

\* new_metadata[i] = metadata; ex is a sentence, so the while loop ends and
\* the for loop goes to the next slot
WriteMetadata ==
    /\ mk.pc = "write_metadata"
    /\ mk' = [mk EXCEPT !.pc = IF mk.i + 1 = mk.n THEN "done" ELSE "draw",
                        !.i = @ + 1, !.ex = <<>>,
                        !.new_metadata[mk.i] =
                            Slot(mk.metadata.of.draw, mk.metadata)]
    /\ UNCHANGED <<src, cur, last, steps, filt>>

\* except KeyboardInterrupt: sys.exit('User terminated program.')
KeyboardInterrupt ==
    /\ mk.pc \in {"pair", "metadata", "write_dataset", "write_metadata"}
    /\ mk' = [mk EXCEPT !.pc = "exit"]
    /\ UNCHANGED <<src, cur, last, steps, filt>>

NextMaker ==
    \/ GetRandomSentence
    \/ SplitFun
    \/ MetadataFun
    \/ WriteDataset
    \/ WriteMetadata
    \/ KeyboardInterrupt

SpecMaker == InitMaker /\ [][NextMaker]_vars

-----------------------------------------------------------------------------
(* The token specification: EToken.reinflect on a token of a sentence of   *)
(* the corpus or of a question made of one                                 *)

\* the spellings of number and tense reinflect is called with; None is the
\* default of the parameter
TokenNumberArgs == NumberArgs \cup {None}

TokenTenseArgs == TenseArgs \cup {"Inf", INFINITIVE, None}

\* the sentences without modifier or conjunct, and "The dog quoth.", whose
\* verb the conjugator has no form for
TokenCorpus ==
    {Sentence("dog", n, <<>>, p, <<>>) :
        n \in Numbers, p \in UNION {Predicates(vn) : vn \in Numbers}}
    \cup {Sentence("dog", "Sing", <<>>, <<PastVerb("quoth", "quoth")>>, <<>>)}

InitToken ==
    /\ cur \in TokenCorpus
    /\ src = cur
    /\ last = NoCall
    /\ steps = 0
    /\ filt = NoFilter
    /\ mk = NoMaker

\* the token at position i after reinflect has changed it
Reinflected(doc, i, r) ==
    [doc EXCEPT ![i + 1] = RawOf(r.tok, doc[i + 1].head)]

\* EToken.reinflect(number, tense) on the token at position i of cur
ReinflectToken ==
    /\ steps = 0
    /\ \E i \in Positions(EDoc(cur)), number \in TokenNumberArgs,
          tense \in TokenTenseArgs :
          LET Of(r) ==
                  /\ cur' = IF r.ok THEN Reinflected(cur, i, r) ELSE cur
                  /\ last' = [NoCall EXCEPT !.op = "reinflect", !.index = i,
                                            !.number = number, !.tense = tense,
                                            !.ok = r.ok, !.err = r.err,
                                            !.before = cur]
          IN  Of(reinflect(EDoc(cur), Token(EDoc(cur), i), number, tense, None))
    /\ steps' = 1
    /\ UNCHANGED <<src, filt, mk>>

NextToken ==
    \/ MakeQuestion
    \/ ReinflectToken

SpecToken == InitToken /\ [][NextToken]_vars

-----------------------------------------------------------------------------
(* The loop specification: make_sentence_polar_question step by step, one  *)
(* action per iteration of its while loops.  last.op is the position in    *)
(* the code, last.indices the verbs the for loop has not finished,         *)
(* last.index the verb v, last.head next_v and last.moves the subject s.   *)

\* "and sings and goes": a conjunct of a conjunct
NestedConjunct ==
    <<And,
      Finite("sing", "sings", "sing", "sang", "Sing", "Pres", "VERB", "conj",
             "c_verb", "pred"),
      Word("and", "CC", "CCONJ", NoMorph, "and", "cc", "d_cc", "c_verb"),
      Finite("go", "goes", "go", "went", "Sing", "Pres", "VERB", "conj",
             "d_verb", "c_verb")>>

LoopCorpus ==
    Corpus
    \cup {Sentence("dog", "Sing", <<>>,
                   <<Finite("bark", "barks", "bark", "barked", "Sing", "Pres",
                            "VERB", "ROOT", "pred", "pred")>>,
                   NestedConjunct)}

InitLoop ==
    /\ cur \in LoopCorpus
    /\ src = cur
    /\ last = NoCall
    /\ steps = 0
    /\ filt = NoFilter
    /\ mk = NoMaker

\* the position pc in the pass for the verb v, with next_v and s
At(pc, v, next_v, s) ==
    [last EXCEPT !.op = pc, !.index = v, !.head = next_v, !.moves = SortedSeq(s)]

\* the call: if not self.can_form_polar_question: raise ValueError
EnterQuestion ==
    /\ last.op = "init"
    /\ last' = IF ~can_form_polar_question(EDoc(cur))
               THEN [last EXCEPT !.op = "raise", !.ok = FALSE, !.err = "ValueError",
                                 !.before = cur]
               ELSE [last EXCEPT !.op = "for", !.before = cur,
                                 !.indices = SortedSeq(main_clause_verbs(EDoc(cur)))]
    /\ UNCHANGED <<src, cur, steps, filt, mk>>

\* for v in vs: the subject children of v; an auxiliary without them
\* enters the first while loop
ForVerb ==
    /\ last.op = "for"
    /\ last.indices # <<>>
    /\ LET d == EDoc(cur)
           v == Head(last.indices)
           Of(s) == IF s = {} /\ is_aux(Token(d, v))
                    THEN At("while_aux", v, v, {})
                    ELSE At("if_subject", v, v, s)
           Kids(kids) ==
               Of(IF \A c \in kids : Token(d, c).dep = "attr" THEN {} ELSE kids)
       IN  last' = Kids(ChildrenWithDep(d, v, SUBJ_DEPS))
    /\ UNCHANGED <<src, cur, steps, filt, mk>>

\* while next_v.head.is_aux: next_v = next_v.head
AuxChainStep ==
    /\ last.op = "while_aux"
    /\ is_aux(Token(EDoc(cur), head_of(EDoc(cur), last.head)))
    /\ last' = [last EXCEPT !.head = head_of(EDoc(cur), last.head)]
    /\ UNCHANGED <<src, cur, steps, filt, mk>>

\* the loop is left: s = the subject children of next_v.head
AuxChainExit ==
    /\ last.op = "while_aux"
    /\ ~is_aux(Token(EDoc(cur), head_of(EDoc(cur), last.head)))
    /\ last' = At("if_subject", last.index, last.head,
                  ChildrenWithDep(EDoc(cur), head_of(EDoc(cur), last.head),
                                  SUBJ_DEPS))
    /\ UNCHANGED <<src, cur, steps, filt, mk>>

\* if not (s and self._can_be_inverted_subject(s, next_v)): next_v = v
SubjectTest ==
    /\ last.op = "if_subject"
    /\ last' = IF /\ last.moves # <<>>
                  /\ _can_be_inverted_subject(EDoc(cur), Range(last.moves), last.head)
               THEN [last EXCEPT !.op = "body"]
               ELSE [last EXCEPT !.op = "while_subject", !.head = last.index]
    /\ UNCHANGED <<src, cur, steps, filt, mk>>

\* while not next_v.subject: next_v = next_v.head
SubjectWalkStep ==
    /\ last.op = "while_subject"
    /\ ~has_subject(EDoc(cur), last.head)
    /\ last' = [last EXCEPT !.head = head_of(EDoc(cur), last.head)]
    /\ UNCHANGED <<src, cur, steps, filt, mk>>

\* the loop is left: s = next_v.subject
SubjectWalkExit ==
    /\ last.op = "while_subject"
    /\ has_subject(EDoc(cur), last.head)
    /\ last' = [last EXCEPT !.op = "body",
                            !.moves = SortedSeq(subject(EDoc(cur), last.head))]
    /\ UNCHANGED <<src, cur, steps, filt, mk>>

\* the rest of the pass, which has no loop: it raises, or the for loop goes
\* on, or after the last verb the question is returned
PassBody ==
    /\ last.op = "body"
    /\ LET d    == EDoc(cur)
           vs   == SortedSeq(main_clause_verbs(d))
           done == SubSeq(vs, 1, Len(vs) - Len(last.indices) + 1)
           Finish(r) ==
               /\ cur' = IF r.ok THEN NewEDoc(cur, r.doc).result ELSE cur
               /\ last' = [last EXCEPT !.op = IF r.ok THEN "return" ELSE "raise",
                                       !.ok = r.ok, !.err = r.err, !.indices = <<>>]
           Of(acc) ==
               IF ~acc.ok
               THEN /\ cur' = cur
                    /\ last' = [last EXCEPT !.op = "raise", !.ok = FALSE,
                                            !.err = acc.err]
               ELSE IF Len(last.indices) = 1
               THEN Finish(_get_question_punctuation(acc.doc))
               ELSE /\ cur' = cur
                    /\ last' = [last EXCEPT !.op = "for",
                                            !.indices = Tail(last.indices)]
       IN  Of(QLoop(d, QAcc(d, 0), done))
    /\ UNCHANGED <<src, steps, filt, mk>>

NextLoop ==
    \/ EnterQuestion
    \/ ForVerb
    \/ AuxChainStep
    \/ AuxChainExit
    \/ SubjectTest
    \/ SubjectWalkStep
    \/ SubjectWalkExit
    \/ PassBody

\* an iteration of one of the two while loops, or the step that leaves it
WalkStep ==
    \/ AuxChainStep
    \/ AuxChainExit
    \/ SubjectWalkStep
    \/ SubjectWalkExit

\* the program keeps running: inside a loop the next step is taken
SpecLoop == InitLoop /\ [][NextLoop]_vars /\ WF_vars(WalkStep)

\* C1: after any Replace, Remove or Insert applied to a sentence with exactly
\* one root, all heads in range and no cycle, the resulting sentence again has
\* exactly one self-headed token, all heads in range and no other cycle.
C1_EditsKeepTree ==
    (last.op # "init" /\ last.ok /\ WellFormed(last.before)) => WellFormed(cur)

-----------------------------------------------------------------------------
(* Properties                                                              *)

Question == "make_sentence_polar_question"

\* the sentence the last operation was called on, as its EDoc
Before == EDoc(last.before)

C3_QuestionStateMachine ==
    last.op = Question =>
        /\ last.ok =>
              /\ can_form_polar_question(Before)
              /\ cur[Len(cur)].text = "?"
              /\ ~can_form_polar_question(EDoc(cur))
        /\ ~can_form_polar_question(Before) =>
              /\ ~last.ok
              /\ last.err = "ValueError"
              /\ cur = last.before

\* an eligible sentence was inverted
C3_Witness ==
    /\ last.op = Question
    /\ last.ok
    /\ Render(last.before) = "The dog barks."
    /\ Render(cur) = "Does the dog bark?"

\* the auxiliary lemma the inversion of the verb at v needs: its own, or
\* 'do' for a verb that is not an auxiliary
C4_Needs(d, v) == IF is_aux(Token(d, v)) THEN Token(d, v).lemma ELSE "do"

\* the first position of the subject the verb at v is predicated of
C4_SubjectPosition(d, v) ==
    Min(UNION {Descendants(d, x) : x \in subject(d, ClimbToSubject(d, v, 0))})

\* two main clause verbs with the same surface subject position need
\* different auxiliaries
C4_Conflict(d) ==
    /\ main_verb(d) # NoIdx
    /\ \E v, w \in main_clause_verbs(d) :
          /\ ClimbToSubject(d, v, 0) # NoIdx
          /\ ClimbToSubject(d, w, 0) # NoIdx
          /\ C4_SubjectPosition(d, v) = C4_SubjectPosition(d, w)
          /\ C4_Needs(d, v) # C4_Needs(d, w)

\* C4: can_form_polar_question is false for every sentence in which two main
\* clause verbs that share the surface subject position need different
\* auxiliaries, and such a sentence is never inverted.
C4_MixedAuxiliariesRejected ==
    /\ C4_Conflict(EDoc(cur)) => ~can_form_polar_question(EDoc(cur))
    /\ (last.op = Question /\ C4_Conflict(Before)) => ~last.ok /\ cur = last.before

\* a sentence with a verb that needs do-support and a conjoined 'be'
C4_Witness ==
    /\ last.op = Question
    /\ C4_Conflict(Before)
    /\ Render(last.before) = "The dog barks and is old."

\* the single main clause verb of d, when d has exactly one
C5_Verb(d) == CHOOSE v \in main_clause_verbs(d) : TRUE

\* the last call made a question of a sentence whose single main clause
\* verb has its own subject
C5_Case ==
    /\ last.op = Question
    /\ last.ok
    /\ Cardinality(main_clause_verbs(Before)) = 1
    /\ QuestionSubject(Before, C5_Verb(Before)).own

\* the first position of the subject phrase of the sentence
C5_SubjectStart(d) == Min(UNION {Descendants(d, x) : x \in main_subject(d)})

\* the sequence without its element at position i (0-based)
C5_Without(seq, i) == SubSeq(seq, 1, i) \o SubSeq(seq, i + 2, Len(seq))

C5_Lemmas(d) == [k \in DOMAIN d |-> d[k].lemma]

\* do-support: one more token, a finite 'do' in front of the subject with
\* the tense of the verb and the number of the subject; the verb is made
\* an infinitive where it stands
C5_DoSupport(b, v, p) ==
    /\ Len(cur) = Len(b) + 1
    /\ cur[p + 1].lemma = "do"
    /\ cur[p + 1].pos = "AUX"
    /\ cur[p + 1].morph.VerbForm = "Fin"
    /\ cur[p + 1].morph.Tense = get_morph(Token(b, v), "Tense")
    /\ cur[p + 1].morph.Number = main_subject_number(b)
    /\ C5_Lemmas(C5_Without(cur, p)) = C5_Lemmas(b)
    /\ cur[v + 2].tag = "VB"
    /\ cur[v + 2].morph.VerbForm = "Inf"
    /\ cur[v + 2].morph.Tense = None
    /\ cur[v + 2].morph.Number = None

\* the tokens of seq other than a contracted n't
C5_Uncontracted(seq) == SelectSeq(seq, LAMBDA t : t.text # "n't")

\* an auxiliary: as many tokens, the auxiliary in front of the subject (a
\* contracted n't goes with it), the other tokens in the order they had
C5_Inversion(b, v, p) ==
    /\ Len(cur) = Len(b)
    /\ cur[p + 1].lemma = Token(b, v).lemma
    /\ is_aux(cur[p + 1])
    /\ C5_Lemmas(C5_Uncontracted(C5_Without(cur, p)))
          = C5_Lemmas(C5_Uncontracted(C5_Without(b, v)))

\* C5: for an eligible sentence whose single main clause verb has its own
\* subject, the question has a finite 'do' with the verb's tense and the
\* subject's number in front of the subject and the verb as an infinitive
\* (verb not an auxiliary), or the auxiliary moved in front of the subject
\* and as many tokens as before (auxiliary); the last token is '?'.
C5_QuestionShape ==
    C5_Case =>
        /\ cur[Len(cur)].text = "?"
        /\ IF is_aux(Token(Before, C5_Verb(Before)))
           THEN C5_Inversion(Before, C5_Verb(Before), C5_SubjectStart(Before))
           ELSE C5_DoSupport(Before, C5_Verb(Before), C5_SubjectStart(Before))

C5_Witness ==
    /\ C5_Case
    /\ Render(last.before) = "The dog barked."
    /\ Render(cur) = "Did the dog bark?"
    /\ cur[1].morph.Tense = "Past"
    /\ cur[4].tag = "VB"

C11_Qualifies(d, i, v) ==
    /\ Token(d, i).pos \in {"NOUN", "PROPN"}
    /\ Token(d, i).dep \notin {"compound", "nmod"}
    /\ \/ i + 1 = v
       \/ (/\ Token(d, i + 1).tag # Token(d, i).tag
           /\ Token(d, i + 1).pos # Token(d, i).pos)

\* the last position of the subject, expanded by its partitive head nouns
C11_SubjectEnd(d) ==
    Max(main_subject(d)
        \cup UNION {_get_partitive_head_noun(d, i) :
                       i \in {j \in main_subject(d) :
                                 Token(d, j).text \in ALL_PARTITIVES}})

C11_Interval(d) == {i \in Positions(d) : C11_SubjectEnd(d) < i /\ i < main_verb(d)}

\* C11: main_subject_verb_interveners reports tokens only from the positions
\* strictly after the last position of the (partitive-expanded) subject and
\* strictly before the main verb, and reports every NOUN/PROPN token of that
\* open interval that is not labelled compound/nmod and is not followed by a
\* token of the same tag/POS, the token right after the subject included.
C11_IntervalCovered ==
    (main_verb(EDoc(cur)) # NoIdx /\ main_subject(EDoc(cur)) # {}) =>
        /\ main_subject_verb_interveners(EDoc(cur)) \subseteq C11_Interval(EDoc(cur))
        /\ \A i \in C11_Interval(EDoc(cur)) :
              C11_Qualifies(EDoc(cur), i, main_verb(EDoc(cur)))
                  => i \in main_subject_verb_interveners(EDoc(cur))

\* C12: number resolution never raises and always gives 'Sing' or 'Plur':
\* main_subject_number, main_object_number and _get_noun_number of every
\* token return one of the two for every sentence.
C12_NumberTotal ==
    /\ main_subject_number(EDoc(cur)) \in {"Sing", "Plur"}
    /\ main_object_number(EDoc(cur)) \in {"Sing", "Plur"}
    /\ \A i \in Positions(EDoc(cur)) :
          _get_noun_number(EDoc(cur), {i}, SUBJ_DEPS) \in {"Sing", "Plur"}

C13_AuxKids(d, v) ==
    {c \in Positions(d) :
        c # v /\ Token(d, c).head = v /\ Token(d, c).dep \in {"aux", "auxpass"}}

\* the tokens reached from the tokens of S in at most n steps to an
\* aux/auxpass child
RECURSIVE C13_Reach(_, _, _)
C13_Reach(d, S, n) ==
    IF n = 0 THEN S
    ELSE C13_Reach(d, S \cup UNION {C13_AuxKids(d, v) : v \in S}, n - 1)

C13_VerbRoot(d) ==
    \E r \in Positions(d) :
        /\ Token(d, r).dep = "ROOT"
        /\ \A q \in Positions(d) : Token(d, q).dep = "ROOT" => r <= q
        /\ (is_verb(Token(d, r)) \/ is_aux(Token(d, r)))

\* C13: main_verb is None exactly when the root is neither a verb nor an
\* auxiliary; otherwise it is reached from the root by steps to an
\* aux/auxpass child and has no such child itself, so the walk has ended.
C13_MainVerbWalk ==
    filt.doc # <<>> =>
        /\ (main_verb(EDoc(filt.doc)) = NoIdx) <=> ~C13_VerbRoot(EDoc(filt.doc))
        /\ main_verb(EDoc(filt.doc)) # NoIdx =>
              /\ main_verb(EDoc(filt.doc))
                    \in C13_Reach(EDoc(filt.doc), {root(EDoc(filt.doc))},
                                  Len(filt.doc))
              /\ C13_AuxKids(EDoc(filt.doc), main_verb(EDoc(filt.doc))) = {}

C13_Witness ==
    /\ filt.pc = "return"
    /\ Render(EDoc(filt.doc)) = "The dog is barking."
    /\ root(EDoc(filt.doc)) = 3
    /\ main_verb(EDoc(filt.doc)) = 2

\* C15: the parser is called only after the string phase has accepted the
\* string, at most once per filter call; for a string the string phase
\* rejects the filter returns False and the parser is never called.
C15_ParseAfterStringPhase ==
    /\ filt.parses > 0 => (filt.str = "True" /\ filt.fn \in ParsingFilters)
    /\ filt.parses <= 1
    /\ (filt.pc = "return" /\ filt.str = "False") =>
          (filt.ret = "False" /\ filt.parses = 0 /\ filt.nlp = None)

C15_Witness ==
    /\ filt.pc = "return"
    /\ filt.fn = "question_conditions"
    /\ filt.raw = <<"the", " ", "dog", " ", "barks", ".">>
    /\ filt.str = "False"
    /\ filt.ret = "False"
    /\ filt.parses = 0

\* C16: every filter returns False or the accepted string or sentence for
\* every raw string; no exception leaves a filter.
C16_FiltersTotal ==
    filt.pc = "return" => filt.ret \in {"False", "True", "str", "EDoc"}

\* C17: every string the string phase accepts starts with an uppercase
\* letter and its first word is not written in capitals only.
C17_AcceptedStartsUpper ==
    filt.str = "True" =>
        /\ IsUpperInitial(filt.raw[1])
        /\ ~IsUpperStr(FirstWord(filt.raw))

\* C19: when SIGALRM fires between entering and leaving the timeout context
\* of nlp, the caller of nlp sees a ParseError and never a TimeoutError, the
\* alarm is off once nlp has returned or raised, and the filter returns
\* False.
C19_TimeoutIsParseError ==
    (filt.fired /\ filt.pc \in {"checks", "return"}) =>
        /\ filt.nlp = "ParseError"
        /\ filt.alarm = "off"
        /\ (filt.pc = "return" => filt.ret = "False")

\* C14: renumber_main_subject_verb_distractors called with a number it
\* knows always returns a new sentence, also when the sentence has no
\* distractors.
C14_RenumberReturnsSentence ==
    (/\ last.op = "renumber_main_subject_verb_distractors"
     /\ NUMBER_MAP(last.number) # None) => last.ok

\* the number of removed positions below position h
C20_Below(R, h) == Cardinality({r \in R : r < h})

\* C20: after _copy_with_remove of the set R of positions with substitute
\* m, every remaining token whose head was in R has the substitute as head
\* (at the position the substitute has before or after the removal), and
\* every other remaining token's head h has become h minus the number of
\* positions of R below h, whatever the order of R.
C20_RemoveRenumbersHeads ==
    (last.op = "_copy_with_remove" /\ last.ok) =>
        LET R    == Range(last.indices)
            m    == last.moves[1]
            kept == SortedSeq({i \in 0..(Len(last.before) - 1) : i \notin R})
        IN  /\ Len(cur) = Len(kept)
            /\ \A k \in DOMAIN kept :
                  LET h == last.before[kept[k] + 1].head
                  IN  IF h \in R
                      THEN cur[k].head \in {m, m - C20_Below(R, m)}
                      ELSE cur[k].head = h - C20_Below(R, h)

\* the slots of the passes of the loop that have ended
C18_Done == 0..(mk.i - 1)

\* C18: in create_seq2seq_dataset a candidate whose split function or
\* metadata function raised leaves slot i of both lists empty and the loop
\* at slot i; outside the two adjacent assignments a slot of the dataset is
\* filled exactly when the same slot of the metadata is, both from the same
\* candidate, and when the loop has ended all n slots of both are filled.
C18_SlotsWrittenTogether ==
    mk.pc \in {"draw", "pair", "metadata", "write_dataset", "done"} =>
        /\ \A j \in 0..(mk.n - 1) :
              /\ mk.new_dataset[j].filled <=> j \in C18_Done
              /\ mk.new_metadata[j].filled <=> j \in C18_Done
              /\ mk.new_dataset[j].draw = mk.new_metadata[j].draw
              /\ j \in C18_Done =>
                    mk.new_dataset[j].value
                        = Translation(mk.new_metadata[j].value.of)
        /\ mk.pc = "done" <=> mk.i = mk.n

C18_Witness ==
    /\ mk.pc = "done"
    /\ mk.n = 2
    /\ mk.draws = 3
    /\ mk.new_dataset[0].draw = 2
    /\ mk.new_metadata[1].draw = 3
    /\ mk.new_dataset[1].value.prefix = "ques_pres"

\* the Number feature of the token at position i, singular when absent
C9_Number(d, i) == IF d[i + 1].morph.Number = None THEN "Sing" ELSE d[i + 1].morph.Number

C10_Path(i, s, dep, over) ==
    /\ cur[i + 1].dep = dep
    /\ cur[cur[i + 1].head + 1].dep = over
    /\ cur[cur[i + 1].head + 1].head = s

\* C10: a distractor that is the subject of a relative clause on the subject
\* head (nsubj under relcl) has the structure label RC, and one that is the
\* object of a preposition attached to the subject head (pobj under prep)
\* has the label PP.
C10_StructureLabels ==
    (main_verb(EDoc(cur)) # NoIdx /\ has_main_subject(EDoc(cur))) =>
        LET ds == SortedSeq(main_subject_verb_distractors(EDoc(cur)))
            st == main_subject_verb_distractor_structures(EDoc(cur))
            s  == Max(main_subject(EDoc(cur)))
        IN  \A k \in DOMAIN ds :
               /\ C10_Path(ds[k], s, "nsubj", "relcl") =>
                     (Len(st) = Len(ds) /\ st[k] = "RC")
               /\ C10_Path(ds[k], s, "pobj", "prep") =>
                     (Len(st) = Len(ds) /\ st[k] = "PP")

C10_Witness ==
    /\ Render(cur) = "The key that the men own barks."
    /\ main_subject_verb_distractors(EDoc(cur)) = {4}
    /\ C10_Path(4, 1, "nsubj", "relcl")
    /\ main_subject_verb_distractor_structures(EDoc(cur)) = <<"RC">>

\* every main clause verb of the sentence doc has the tense
C7_AllVerbs(doc, tense) ==
    \A v \in main_clause_verbs(EDoc(doc)) :
        TENSE_MAP(doc[v + 1].morph.Tense) = TENSE_MAP(tense)

\* the text after one more call of the tense operation op on cur
C7_Again(op) ==
    LET Text(r) == IF ~r.ok THEN "error" ELSE IF r.same THEN Render(cur)
                   ELSE Render(r.doc)
    IN  IF op = "make_main_verb_past_tense"
        THEN Text(make_main_verb_past_tense(EDoc(cur)))
        ELSE Text(make_main_verb_present_tense(EDoc(cur)))

\* C7: reinflect_main_verb called with the tense the main clause verbs
\* already have, and make_main_verb_past_tense / make_main_verb_present_tense
\* on a sentence already in that tense, return a sentence with the same
\* text; after a successful make_main_verb_past_tense or
\* make_main_verb_present_tense the same call again gives the same text.
C7_SameTenseSameText ==
    /\ (/\ last.op = "reinflect_main_verb"
        /\ last.ok
        /\ C7_AllVerbs(last.before, last.tense)) => Render(cur) = Render(last.before)
    /\ (/\ last.op = "make_main_verb_past_tense"
        /\ last.ok
        /\ C7_AllVerbs(last.before, PAST)) => Render(cur) = Render(last.before)
    /\ (/\ last.op = "make_main_verb_present_tense"
        /\ last.ok
        /\ C7_AllVerbs(last.before, PRESENT)) => Render(cur) = Render(last.before)
    /\ (/\ last.op \in {"make_main_verb_past_tense", "make_main_verb_present_tense"}
        /\ last.ok) => C7_Again(last.op) = Render(cur)

C7_Witness ==
    /\ last.op = "reinflect_main_verb"
    /\ last.ok
    /\ last.tense = "Pres"
    /\ last.number = "Sing"
    /\ Render(last.before) = "The dogs bark."
    /\ Render(cur) = "The dogs bark."

\* the main clause verb at position v of doc is 'used' with an xcomp child
C6_UsedTo(doc, v) ==
    /\ doc[v + 1].text = "used"
    /\ \E c \in DOMAIN doc : doc[c].head = v /\ doc[c].dep = "xcomp" /\ c - 1 # v

\* C6: the conversion of 'used to' to present tense fails with an error,
\* through reinflect_main_verb with any accepted spelling of the present
\* tense and through make_main_verb_present_tense.
C6_UsedToNotPresent ==
    (/\ \/ last.op = "make_main_verb_present_tense"
        \/ (last.op = "reinflect_main_verb" /\ TENSE_MAP(last.tense) = PRESENT)
     /\ \E v \in main_clause_verbs(EDoc(last.before)) : C6_UsedTo(last.before, v))
        => ~last.ok

\* the main verb of doc is 'lay' without an object: its homophone condition
\* holds
C8_IntransitiveLay(doc) ==
    /\ main_verb(EDoc(doc)) # NoIdx
    /\ doc[main_verb(EDoc(doc)) + 1].text = "lay"
    /\ HomophoneCondition(EDoc(doc), main_verb(EDoc(doc)))

\* C8: reinflecting a sentence whose main verb is an intransitive 'lay' to
\* present tense gives 'lies' when the number asked for is singular and
\* 'lie' when it is plural.
C8_LayBecomesLie ==
    (/\ last.op = "reinflect_main_verb"
     /\ last.ok
     /\ TENSE_MAP(last.tense) = PRESENT
     /\ C8_IntransitiveLay(last.before)) =>
        cur[main_verb(EDoc(last.before)) + 1].text
            = IF NUMBER_MAP(last.number) = SG THEN "lies" ELSE "lie"

\* the position after an insertion at p of what was at position x before
C21_Moved(x, p) == IF x >= p THEN x + 1 ELSE x

\* C21: after _copy_with_add at position p every token that was there before
\* stands one position further when it was at or after p, and its head is
\* the token that was its head before, also when that was the token at p.
C21_InsertKeepsHeads ==
    (last.op = "_copy_with_add" /\ last.ok) =>
        /\ Len(cur) = Len(last.before) + 1
        /\ \A x \in 0..(Len(last.before) - 1) :
              /\ cur[C21_Moved(x, last.index) + 1].lemma = last.before[x + 1].lemma
              /\ cur[C21_Moved(x, last.index) + 1].head
                    = C21_Moved(last.before[x + 1].head, last.index)

\* the main clause verbs of d that invert with a subject of their own: the
\* subject is a child of the verb, or of the verb it is the auxiliary of
C22_Inverting(d) ==
    {v \in main_clause_verbs(d) :
        /\ QuestionSubject(d, v).own
        /\ \/ ChildrenWithDep(d, v, SUBJ_DEPS) # {}
           \/ Token(d, v).dep \in {"aux", "auxpass"}}

\* the head of the subject v inverts with
C22_SubjectHead(d, v) == Min(QuestionSubject(d, v).s)

\* the first position of the phrase of the subject v inverts with
C22_SubjectStart(d, v) ==
    Min(UNION {Descendants(d, x) : x \in QuestionSubject(d, v).s})

\* in the question the subject head of v stands at q (from 1): the phrase
\* begins as before, and the auxiliary of v stands immediately before it
\* (with n't between them when that moved along)
C22_AuxBefore(b, v, q, p) ==
    /\ cur[q].lemma = Token(b, C22_SubjectHead(b, v)).lemma
    /\ cur[q].dep = Token(b, C22_SubjectHead(b, v)).dep
    /\ p >= 2
    /\ cur[p].lemma = Token(b, C22_SubjectStart(b, v)).lemma
    /\ LET a == IF cur[p - 1].text = "n't" THEN p - 2 ELSE p - 1
       IN  /\ a >= 1
           /\ is_aux(cur[a])
           /\ cur[a].lemma
                 = (IF IsOwnAux(Token(b, v)) THEN Token(b, v).lemma ELSE "do")

C23_Like(seq, t) ==
    {y \in DOMAIN seq : seq[y].lemma = t.lemma /\ seq[y].dep = t.dep}

\* the tokens that depended on the auxiliary at v and can be told apart in
\* the sentence by lemma and relation (n't moves with the auxiliary)
C23_Dependents(b, v) ==
    {x \in Positions(b) :
        /\ x # v
        /\ head_of(b, x) = v
        /\ Token(b, x).text # "n't"
        /\ Cardinality(C23_Like(last.before, Token(b, x))) = 1}

\* every such token is once in the question, with the position a (from 1)
\* of the inserted auxiliary as its head
C23_Redirected(b, v, a) ==
    \A x \in C23_Dependents(b, v) :
        /\ Cardinality(C23_Like(cur, Token(b, x))) = 1
        /\ \A y \in C23_Like(cur, Token(b, x)) : cur[y].head = a - 1

\* the auxiliary at v stands before its subject, whose head is at q and
\* whose phrase begins at p, and not where it stood
C23_Moved(b, v, q, p) ==
    /\ C22_AuxBefore(b, v, q, p)
    /\ Cardinality({y \in DOMAIN cur : cur[y].lemma = Token(b, v).lemma})
          = Cardinality({y \in DOMAIN last.before :
                            last.before[y].lemma = Token(b, v).lemma})
    /\ C23_Redirected(b, v, IF cur[p - 1].text = "n't" THEN p - 2 ELSE p - 1)

\* C23: when a main clause verb that is inverted is itself an auxiliary
\* (other than 'get'), the question has it before the subject and no longer
\* where it stood, and every token that depended on it has the position of
\* the inserted auxiliary as its head, in every conjunct.
C23_DependentsFollowAuxiliary ==
    (last.op = Question /\ last.ok) =>
        \A v \in {w \in C22_Inverting(Before) : IsOwnAux(Token(Before, w))} :
            \E q \in 1..Len(cur) :
                C23_Moved(Before, v, q,
                          q - (C22_SubjectHead(Before, v)
                                  - C22_SubjectStart(Before, v)))

\* the token the last call of reinflect was made on, what the sentence
\* held for it, and what the call left
C24_Old == Token(Before, last.index)

C24_Raw == last.before[last.index + 1]

C24_New == cur[last.index + 1]

\* the number and tense of the call; a missing argument is the feature of
\* the token
C24_Number ==
    NUMBER_MAP(IF last.number = None THEN C24_Old.morph.Number ELSE last.number)

C24_Tense ==
    TENSE_MAP(IF last.tense = None THEN C24_Old.morph.Tense ELSE last.tense)

\* the form by precedence: exact entry, 'any' entry, generic conjugator
C24_Form(text, cn, ct) ==
    LET First(exact, anyn) ==
            IF exact # None THEN exact
            ELSE IF anyn # None THEN anyn
            ELSE conjugate(text, cn, ct)
    IN  First(CONJUGATE_MAP(text, cn, ct), CONJUGATE_MAP(text, "any", ct))

\* C24: reinflect takes the exact CONJUGATE_MAP entry of the text, number
\* and tense, else the 'any' entry for the tense, else the form of the
\* generic conjugator; when the form is empty the call fails, and a failed
\* call leaves the token's text, tag and features as they were.
C24_FormByPrecedence ==
    (last.op = "reinflect") =>
        /\ last.ok =>
              /\ C24_Form(C24_Old.text, C24_Number, C24_Tense) # None
              /\ Decapitalize(C24_New.text)
                    = Decapitalize(C24_Form(C24_Old.text, C24_Number, C24_Tense))
        /\ last.err = "ParseError" =>
              C24_Form(C24_Old.text, C24_Number, C24_Tense) = None
        /\ ~last.ok =>
              /\ C24_New.text = C24_Raw.text
              /\ C24_New.tag = C24_Raw.tag
              /\ C24_New.morph = C24_Raw.morph
              /\ cur = last.before

C24_Witness ==
    /\ last.op = "reinflect"
    /\ last.err = "ParseError"
    /\ C24_Old.text = "quoth"
    /\ last.tense = "Pres"
    /\ C24_New = C24_Raw

\* the tag of a verb form of number cn and tense ct
C25_Tag(cn, ct, old) ==
    IF ct = PAST THEN "VBD"
    ELSE IF ct = INFINITIVE THEN "VB"
    ELSE IF ct = PRESENT /\ cn = SG THEN "VBZ"
    ELSE IF ct = PRESENT /\ cn = PL THEN "VBP"
    ELSE old

\* C25: after a successful reinflect the tag is VBD (past), VB (infinitive),
\* VBZ (present singular) or VBP (present plural), the Tense and Number
\* features are those of the target, for an infinitive target in any
\* spelling Tense is removed and VerbForm is Inf, and a sentence-initial
\* token begins with an upper-case letter.
C25_CanonicalTagAndFeatures ==
    (last.op = "reinflect" /\ last.ok) =>
        /\ C24_New.tag = C25_Tag(C24_Number, C24_Tense, C24_Old.tag)
        /\ C24_New.morph.Number
              = (IF C24_Number = SG THEN "Sing"
                 ELSE IF C24_Number = PL THEN "Plur" ELSE None)
        /\ C24_New.morph.Tense
              = (IF C24_Tense = PAST THEN "Past"
                 ELSE IF C24_Tense = PRESENT THEN "Pres" ELSE None)
        /\ C24_Tense = INFINITIVE => C24_New.morph.VerbForm = "Inf"
        /\ C24_Old.sent_start => IsUpperInitial(C24_New.text)

\* seq with every run of equal neighbours made one element
RECURSIVE C26_Adjacent(_)
C26_Adjacent(seq) ==
    IF Len(seq) < 2 THEN seq
    ELSE IF seq[1] = seq[2] THEN C26_Adjacent(Tail(seq))
    ELSE <<seq[1]>> \o C26_Adjacent(Tail(seq))

\* the labels of the tokens on the path from the noun at i up to, and
\* without, the subject head s
C26_Labels(d, i, s) ==
    LET Of(path) == [k \in DOMAIN path |-> STRUCTURE_MAP(Token(d, path[k]).dep)]
    IN  Of(SelectSeq(_get_path(d, i, s, Len(d)), LAMBDA x : x # s))

\* C26: the structure string of a distractor is made of the labels of its
\* path to the subject head, mapped through STRUCTURE_MAP, without those in
\* EXCLUDE_DEPS, with only adjacent repeats made one and joined by commas
\* (a label that comes again after another one is kept: 'PP,RC,PP').
C26_AdjacentRepeatsOnly ==
    (main_verb(EDoc(cur)) # NoIdx /\ has_main_subject(EDoc(cur))) =>
        LET ds == SortedSeq(main_subject_verb_distractors(EDoc(cur)))
            st == main_subject_verb_distractor_structures(EDoc(cur))
            s  == Max(main_subject(EDoc(cur)))
        IN  Len(st) = Len(ds) =>
               \A k \in DOMAIN ds :
                   C26_Labels(EDoc(cur), ds[k], s) # <<>> =>
                       st[k] = Join(C26_Adjacent(
                                       DropExcluded(C26_Labels(EDoc(cur), ds[k], s))))

\* the token at i is the head of a partitive: a word of PARTITIVES_WITH_P or
\* PARTITIVES_OPTIONAL_P with its linking preposition among its children,
\* or a word of PARTITIVES_WITH_INDEFINITE_ONLY with an indefinite determiner
C27_PartitiveHead(d, i) ==
    \/ /\ Token(d, i).text \in PARTITIVES_WITH_P \cup PARTITIVES_OPTIONAL_P
       /\ \E c \in children(d, i) :
              Token(d, c).text \in PARTITIVES_P_MAP(Token(d, c).text)
    \/ /\ Token(d, i).text \in PARTITIVES_WITH_INDEFINITE_ONLY
       /\ \E c \in children(d, i) :
              /\ Token(d, c).dep = "det"
              /\ get_morph(Token(d, c), "Definite") = "Ind"

\* C27: main_subject_verb_interveners never reports a token between the
\* subject and the main verb that is the head of a partitive.
C27_NoPartitiveHeadReported ==
    (main_verb(EDoc(cur)) # NoIdx /\ has_main_subject(EDoc(cur))) =>
        \A i \in main_subject_verb_interveners(EDoc(cur)) :
            ~C27_PartitiveHead(EDoc(cur), i)

\* the sentence without the tokens after the first conjunct of its subject
\* up to the last conjunct
C28_Reduced(doc, s) ==
    SubSeq(doc, 1, Min(s) + 1) \o SubSeq(doc, Max(s) + 2, Len(doc))

\* C28: renumber_main_subject with a singular target on a sentence with a
\* conjoined main subject returns a sentence, which has the tokens of the
\* sentence without those from just after the first conjunct up to and
\* including the last conjunct, and a singular subject.
C28_ConjoinedSubjectReduced ==
    (/\ last.op = "renumber_main_subject"
     /\ NUMBER_MAP(last.number) = SG
     /\ has_conjoined_main_subject(Before)) =>
        /\ last.ok
        /\ C5_Lemmas(cur) = C5_Lemmas(C28_Reduced(last.before, main_subject(Before)))
        /\ main_subject_number(EDoc(cur)) = "Sing"

\* one of the two walks up the heads is under way
C29_Walking == last.op \in {"while_aux", "while_subject"}

\* the walk has been left
C29_Left == last.op \in {"if_subject", "body"}

\* C29: in a call of make_sentence_polar_question on a sentence for which
\* can_form_polar_question is true, both walks up the heads stop, also when
\* the root is an auxiliary, which is its own head.
C29_QuestionTerminates == C29_Walking ~> C29_Left

\* the call r has the outcome the last call had
C30_SameOutcome(r) ==
    /\ r.ok = last.ok
    /\ ~r.ok => r.err = last.err
    /\ r.ok => cur = NewEDoc(last.before,
                             IF r.same THEN last.before ELSE r.doc).result

\* C30: the outcome of reinflect_main_verb depends on the number and the
\* tense its arguments denote only: called on the same sentence with another
\* spelling of the same number and the same tense it gives the same text and
\* features, also for the verbs of the homophone table.
C30_SpellingIndependent ==
    last.op = "reinflect_main_verb" =>
        \A number \in NumberArgs, tense \in TenseArgs :
            (/\ NUMBER_MAP(number) = NUMBER_MAP(last.number)
             /\ TENSE_MAP(tense) = TENSE_MAP(last.tense)) =>
                C30_SameOutcome(reinflect_main_verb(Before, number, tense))
====
